---------------------------- MODULE Spec2Model ----------------------------
(***************************************************************************)
(* A model of the copy-trading event broker (blok-hamster/                 *)
(* copy_trader_service): the purchase-quota gate (TokenPurchaseTracker),   *)
(* the subscription / KOL registry (CacheService and the registry          *)
(* operations of HeliusWebhookService), the swap classifier (parseSwap),   *)
(* the webhook dispatcher (CopyTradingService.processWebhookData and       *)
(* HeliusWebhookService.processWebhookData), the provider requests of      *)
(* subscribeToKOL, unsubscribeFromKOL and syncWallets, the retry path of   *)
(* MessageProcessor and its reconnection, the consume callback of the RPC  *)
(* server, the recent-trades sorted sets of storeKOLTrade and the POST      *)
(* /webhooks/helius handler.                                                *)
(*                                                                         *)
(* The key-value store is modelled by the value of each key; one store     *)
(* command (or one MULTI/EXEC block) is one atomic step.  An absent        *)
(* integer key reads as 0, which is what INCR, DECR and the callers' GET   *)
(* (count ? parseInt(count) : 0) make of it.  The calls of the quota gate   *)
(* interleave command by command, and so do the two concurrent registry    *)
(* calls of SpecRace; elsewhere the registry methods, the RPC methods       *)
(* (the RPC server takes one request at a time) and the handling of one    *)
(* webhook delivery are each one step.                                     *)
(***************************************************************************)
EXTENDS Integers, Sequences, FiniteSets, TLC

VARIABLES
    count,      \* token_buy_count:{userId}:{tokenMint}      (integer key)
    record,     \* token_purchase_record:{userId}:{tokenMint} (JSON record or absent)
    limit,      \* the maxPurchaseCount every caller of one run passes
    call,       \* per caller: position inside incrementAndValidatePurchase
    ret,        \* per caller: what its last completed call returned
    succ,       \* per key: number of calls that returned success = true
    disturbed,  \* per key: a reset or a key expiry has taken place
    ncalls,     \* number of calls started so far
    tx,         \* classifier: the transaction payload handed to parseSwap
    target,     \* classifier: the targetUser argument of parseSwap
    parsed,     \* classifier: what parseSwap returned (<<>> before the call)
    registry,   \* the registry keys of the store: subs (subscriptions:user:{userId}),
                \* subscribers (kol:subscribers:{kolWallet}) and active (kol:active)
    provider,   \* the addresses the provider's webhook watches
    hist,       \* the last registry call and, after an addSubscription for a
                \* pair that had no subscription, the registry before it
    out,        \* dispatcher: the last webhook delivery and what it emitted
                \* (<<>> once the emissions have been taken)
    last,       \* the last completed call of the tracker or of the provider
                \* registry: its arguments, what it returned, the provider
                \* requests it made and the store before it
    trail,      \* tracker: what the incrementAndValidatePurchase calls since the
                \* last reset returned, in call order
    inbox,      \* bus: the messages delivered to the consumer and not yet handled
    timers,     \* bus: the pending setTimeout callbacks of retryMessage
    now,        \* bus: the clock, in ms
    tally,      \* bus: per message id, the handler invocations, the failures,
                \* the retry copies published and the ack / nack given
    chan,       \* bus: the channel the processor holds is "open" or "closed"
    http,       \* per webhook request: the steps of its handler (the response
                \* and the pipeline effects, in program order) and how many of
                \* them have been taken
    conn,       \* bus connection: isConnected, reconnectAttempts, the pending
                \* setTimeout callbacks of attemptReconnection, whether the
                \* process has exited
    race,       \* two concurrent addSubscription / removeSubscription calls
                \* for one user: the list before them and, per call, its
                \* arguments, its position and the list it has read
    recent      \* trade history: the sorted sets trade:recent:{kolWallet} and
                \* trade:recent, every (score, member) ZADD has written to
                \* them, and the last storeKOLTrade call

quotaVars == <<count, record, limit, call, ret, succ, disturbed, ncalls>>
classifierVars == <<tx, target, parsed>>
registryVars == <<registry, provider, hist>>
dispatchVars == <<out>>
trackerVars == <<last, trail>>
busVars == <<inbox, timers, now, tally, chan>>
httpVars == <<http>>
connVars == <<conn>>
raceVars == <<race>>
historyVars == <<recent>>
laterVars == <<connVars, raceVars, historyVars>>

\* the parts a step of one part of the service leaves alone
QuotaOnly ==
    UNCHANGED <<classifierVars, registryVars, dispatchVars, trackerVars, busVars, httpVars,
                laterVars>>
ClassifierOnly ==
    UNCHANGED <<quotaVars, registryVars, dispatchVars, trackerVars, busVars, httpVars,
                laterVars>>
RegistryOnly ==
    UNCHANGED <<quotaVars, classifierVars, dispatchVars, trackerVars, busVars, httpVars,
                laterVars>>
DispatchOnly ==
    UNCHANGED <<quotaVars, classifierVars, registryVars, trackerVars, busVars, httpVars,
                laterVars>>
ProviderOnly ==
    UNCHANGED <<quotaVars, classifierVars, dispatchVars, trail, busVars, httpVars,
                laterVars>>
TrackerOnly ==
    UNCHANGED <<limit, call, ret, succ, disturbed, ncalls,
                classifierVars, registryVars, dispatchVars, busVars, httpVars,
                laterVars>>
BusOnly ==
    UNCHANGED <<quotaVars, classifierVars, registryVars, dispatchVars, trackerVars, httpVars,
                laterVars>>
HttpOnly ==
    UNCHANGED <<quotaVars, classifierVars, registryVars, dispatchVars, trackerVars, busVars,
                laterVars>>

ConnOnly ==
    UNCHANGED <<quotaVars, classifierVars, registryVars, dispatchVars, trackerVars,
                busVars, httpVars, raceVars, historyVars>>
RaceOnly ==
    UNCHANGED <<quotaVars, classifierVars, provider, hist, dispatchVars, trackerVars,
                busVars, httpVars, connVars, historyVars>>
HistoryOnly ==
    UNCHANGED <<quotaVars, classifierVars, registryVars, dispatchVars, trackerVars,
                busVars, httpVars, connVars, raceVars>>

vars == <<quotaVars, classifierVars, registryVars, dispatchVars,
          trackerVars, busVars, httpVars, laterVars>>

----------------------------------------------------------------------------
(* Bounds and value sets *)

NumCallers == 3     \* concurrent callers of the quota gate
MaxCalls   == 4     \* calls started in one run
MaxLimit   == 2     \* largest maxPurchaseCount tried
MaxTokenChanges == 2 \* tokenBalanceChanges of a classifier payload, all accounts together
MaxBatch   == 2     \* transactions in one webhook delivery
MaxStores  == 2     \* storeKOLTrade calls of one run

Users  == {"U1", "U2"}
Tokens == {"M1"}
Keys   == Users \X Tokens
QuotaKeys == {<<"U1", "M1">>}   \* the (userId, tokenMint) the concurrent callers contend on
Callers == 1 .. NumCallers
KOLs   == {"K1", "K2"}
SubIds == {"id1", "id2"}       \* what uuidv4() may return

NoKey == <<"none", "none">>   \* no key: a caller that is not inside a call
Absent == <<>>                 \* a key the store does not hold
Unparseable == "unparseable"   \* a message body JSON.parse rejects

----------------------------------------------------------------------------
(* TokenPurchaseTracker *)

\* multi.incr(countKey): the value INCR leaves and returns
incr(v) == v + 1

\* this.redis.decr(countKey)
decr_skipped(v) == v
decr(v) == v - 1

\* const wasAtLimit = newCount > maxPurchaseCount
wasAtLimit_offByOne(newCount, maxPurchaseCount) == newCount > maxPurchaseCount + 1
wasAtLimit(newCount, maxPurchaseCount) == newCount > maxPurchaseCount

\* the TokenPurchaseRecord written on success (a present key is a one-element sequence)
PurchaseRecord(newCount, maxPurchaseCount) ==
    <<[currentCount |-> newCount, maxCount |-> maxPurchaseCount]>>

idleCall == [pc |-> "idle", key |-> NoKey, newCount |-> 0]
noRet    == [key |-> NoKey, success |-> FALSE, newCount |-> 0, wasAtLimit |-> FALSE]

\* A caller enters incrementAndValidatePurchase(userId, tokenMint, limit, _).
IavpCall(p, key) ==
    /\ call[p].pc = "idle"
    /\ ncalls < MaxCalls
    /\ call' = [call EXCEPT ![p] = [pc |-> "multi", key |-> key, newCount |-> 0]]
    /\ ncalls' = ncalls + 1
    /\ UNCHANGED <<count, record, limit, ret, succ, disturbed>>

\* multi.incr(countKey); multi.expire(countKey, DEFAULT_TTL); multi.exec()
IavpExec(p) ==
    /\ call[p].pc = "multi"
    /\ LET key == call[p].key
           newCount == incr(count[key])
       IN /\ count' = [count EXCEPT ![key] = newCount]
          /\ call' = [call EXCEPT ![p].pc = "checked", ![p].newCount = newCount]
    /\ UNCHANGED <<record, limit, ret, succ, disturbed, ncalls>>

\* if (wasAtLimit) { await this.redis.decr(countKey); return {success: false, ...} }
IavpRollback(p) ==
    /\ call[p].pc = "checked"
    /\ wasAtLimit(call[p].newCount, limit)
    /\ LET key == call[p].key
       IN /\ count' = [count EXCEPT ![key] = decr(@)]
          /\ ret' = [ret EXCEPT ![p] = [key |-> key, success |-> FALSE,
                                        newCount |-> call[p].newCount - 1,
                                        wasAtLimit |-> TRUE]]
    /\ call' = [call EXCEPT ![p] = idleCall]
    /\ UNCHANGED <<record, limit, succ, disturbed, ncalls>>

\* await this.redis.set(recordKey, JSON.stringify(record), 'EX', DEFAULT_TTL);
\* return {success: true, newCount, wasAtLimit: false}
IavpSetRecord(p) ==
    /\ call[p].pc = "checked"
    /\ ~wasAtLimit(call[p].newCount, limit)
    /\ LET key == call[p].key
       IN /\ record' = [record EXCEPT ![key] = PurchaseRecord(call[p].newCount, limit)]
          /\ ret' = [ret EXCEPT ![p] = [key |-> key, success |-> TRUE,
                                        newCount |-> call[p].newCount,
                                        wasAtLimit |-> FALSE]]
          /\ succ' = [succ EXCEPT ![key] = @ + 1]
    /\ call' = [call EXCEPT ![p] = idleCall]
    /\ UNCHANGED <<count, limit, disturbed, ncalls>>

\* resetPurchaseCount: multi.del(countKey); multi.del(recordKey); multi.exec()
resetPurchaseCount(key) ==
    /\ count' = [count EXCEPT ![key] = 0]
    /\ record' = [record EXCEPT ![key] = Absent]
    /\ disturbed' = [disturbed EXCEPT ![key] = TRUE]
    /\ UNCHANGED <<limit, call, ret, succ, ncalls>>

\* The store drops the counter key when its TTL (DEFAULT_TTL, refreshed by
\* every EXPIRE of the MULTI block) runs out.
ExpireCountKey(key) ==
    /\ count[key] # 0
    /\ count' = [count EXCEPT ![key] = 0]
    /\ disturbed' = [disturbed EXCEPT ![key] = TRUE]
    /\ UNCHANGED <<record, limit, call, ret, succ, ncalls>>

\* The store drops the record key when the TTL given to SET ... EX runs out.
ExpireRecordKey(key) ==
    /\ record[key] # Absent
    /\ record' = [record EXCEPT ![key] = Absent]
    /\ disturbed' = [disturbed EXCEPT ![key] = TRUE]
    /\ UNCHANGED <<count, limit, call, ret, succ, ncalls>>

----------------------------------------------------------------------------
(* parseSwap (the swap classifier) *)

\* Numbers are the integers a payload with whole-unit amounts produces: a
\* lamport change is a multiple of LAMPORTS_PER_SOL and a raw token amount a
\* multiple of 10^decimals, so every division below is exact.

SOL_MINT == "So11111111111111111111111111111111111111112"
LAMPORTS_PER_SOL == 1000000000
Undefined == "undefined"

ClassMints == {SOL_MINT, "M1", "M2"}

\* rawTokenAmount: the signed decimal string (sign and digits) and its decimals
RawAmounts == {[neg |-> TRUE,  digits |-> 1,  decimals |-> 0],
               [neg |-> FALSE, digits |-> 0,  decimals |-> 0],
               [neg |-> FALSE, digits |-> 10, decimals |-> 1]}

\* the tokenBalanceChanges entries and the accountData entries a payload is built of
TokenChanges ==
    [userAccount : {"K1"}, mint : ClassMints, rawTokenAmount : RawAmounts]
    \cup {[userAccount |-> "P1", mint |-> "M1",
           rawTokenAmount |-> [neg |-> TRUE, digits |-> 1, decimals |-> 0]]}

AccountEntries ==
    [account : {"K1"},
     nativeBalanceChange : {0 - LAMPORTS_PER_SOL, 0, LAMPORTS_PER_SOL},
     tokenBalanceChanges : {<<>>}]
    \cup {[account |-> "P1", nativeBalanceChange |-> LAMPORTS_PER_SOL,
           tokenBalanceChanges |-> <<>>]}

TargetUsers == {"K1", Undefined}

Abs(n) == IF n < 0 THEN 0 - n ELSE n

\* sign * Number(abs) / 10 ** decimals
toHuman(raw, decimals) ==
    LET sign == IF raw.neg THEN 0 - 1 ELSE 1
    IN  sign * (raw.digits \div (10 ^ decimals))

\* userChanges: a Map in insertion order (order) of userAccount -> mint -> net
\* change (val, a function on the (user, mint) pairs that were set)
EmptyChanges == [order |-> <<>>, val |-> <<>>]

MapHas(m, user) == \E i \in 1 .. Len(m.order) : m.order[i] = user

\* mintMap.get(mint) || 0
MintGet(m, user, mint) ==
    IF <<user, mint>> \in DOMAIN m.val THEN m.val[<<user, mint>>] ELSE 0

\* if (!userChanges.has(user)) userChanges.set(user, new Map());
\* mintMap.set(mint, (mintMap.get(mint) || 0) + delta)
MapAdd(m, user, mint, delta) ==
    [order |-> IF MapHas(m, user) THEN m.order ELSE Append(m.order, user),
     val   |-> [k \in (DOMAIN m.val) \cup {<<user, mint>>} |->
                   IF k = <<user, mint>> THEN MintGet(m, user, mint) + delta
                                         ELSE m.val[k]]]

\* inner loop: for (const tbc of acc.tokenBalanceChanges)
RECURSIVE TokenChangesOfAccount(_, _)
TokenChangesOfAccount(m, tbcs) ==
    IF tbcs = <<>> THEN m
    ELSE LET tbc == Head(tbcs)
             delta == toHuman(tbc.rawTokenAmount, tbc.rawTokenAmount.decimals)
         IN  TokenChangesOfAccount(MapAdd(m, tbc.userAccount, tbc.mint, delta), Tail(tbcs))

\* first loop: for (const acc of tx.accountData)
RECURSIVE TokenPass(_, _)
TokenPass(m, accs) ==
    IF accs = <<>> THEN m
    ELSE TokenPass(TokenChangesOfAccount(m, Head(accs).tokenBalanceChanges), Tail(accs))

\* second loop: native changes, credited to acc.account under SOL_MINT
RECURSIVE NativePass(_, _)
NativePass(m, accs) ==
    IF accs = <<>> THEN m
    ELSE LET acc == Head(accs)
         IN  IF acc.nativeBalanceChange # 0
             THEN NativePass(MapAdd(m, acc.account, SOL_MINT,
                                    acc.nativeBalanceChange \div LAMPORTS_PER_SOL),
                             Tail(accs))
             ELSE NativePass(m, Tail(accs))

UserChanges(accountData) == NativePass(TokenPass(EmptyChanges, accountData), accountData)

\* const userToCheck = targetUser ?? [...userChanges.keys()][0]
UserToCheck(m, targetUser) ==
    IF targetUser # Undefined THEN targetUser
    ELSE IF m.order = <<>> THEN Undefined ELSE m.order[1]

\* [...changes.entries()].filter(([m]) => m !== SOL_MINT), as the set of its mints
tokenEntries(m, user) ==
    {k[2] : k \in {e \in DOMAIN m.val : e[1] = user /\ e[2] # SOL_MINT}}

\* step 4 of parseSwap
Side_tokenSignOnly(solChange, tokenChange) ==
    IF tokenChange > 0 THEN "buy" ELSE "sell"
Side(solChange, tokenChange) ==
    IF solChange < 0 /\ tokenChange > 0 THEN "buy"
    ELSE IF tokenChange < 0 /\ solChange > 0 THEN "sell"
    ELSE "unknown"

\* return {} as ParsedSwap: every field is absent
EmptyParsedSwap == [side |-> Undefined, tokenMint |-> Undefined,
                    tokenAmount |-> Undefined, solAmount |-> Undefined]

\* The steps of parseSwap are operators of their own so that every
\* intermediate value (userChanges, userToCheck, solChange, tokenEntries,
\* tokenEntry) is computed once.

\* step 4 and the return value, for the single token entry [tokenMint, tokenChange]
SwapOfEntry(solChange, tokenMint, tokenChange) ==
    IF solChange = 0 \/ tokenChange = 0 THEN EmptyParsedSwap
    ELSE [side |-> Side(solChange, tokenChange),
          tokenMint |-> tokenMint,
          tokenAmount |-> Abs(tokenChange),
          solAmount |-> Abs(solChange)]

\* if (tokenEntries.length !== 1) return {}; const [tokenMint, tokenChange] = tokenEntries[0]
SwapOfEntries(changes, userToCheck, entries) ==
    IF Cardinality(entries) # 1 THEN EmptyParsedSwap
    ELSE LET tokenMint == CHOOSE mint \in entries : TRUE
         IN  SwapOfEntry(MintGet(changes, userToCheck, SOL_MINT), tokenMint,
                         MintGet(changes, userToCheck, tokenMint))

\* if (!userToCheck) return {}; if (!changes) return {}; step 3
SwapOfUser(userChanges, userToCheck) ==
    IF userToCheck = Undefined THEN EmptyParsedSwap
    ELSE IF ~MapHas(userChanges, userToCheck) THEN EmptyParsedSwap
    ELSE SwapOfEntries(userChanges, userToCheck, tokenEntries(userChanges, userToCheck))

\* step 2
SwapOfChanges(userChanges, targetUser) ==
    SwapOfUser(userChanges, UserToCheck(userChanges, targetUser))

parseSwap(transaction, targetUser) ==
    SwapOfChanges(UserChanges(transaction.accountData), targetUser)

NotParsed == <<>>
EmptyTx == [accountData |-> <<>>]

NumTokenChanges(accs) ==
    LET n[i \in 0 .. Len(accs)] ==
            IF i = 0 THEN 0 ELSE n[i - 1] + Len(accs[i].tokenBalanceChanges)
    IN  n[Len(accs)]

\* The provider puts one more accountData entry into the payload (accountData
\* holds one entry per account of the transaction).
AddAccount(acc) ==
    /\ parsed = NotParsed
    /\ \A i \in 1 .. Len(tx.accountData) : tx.accountData[i].account # acc.account
    /\ tx' = [tx EXCEPT !.accountData = Append(@, acc)]
    /\ UNCHANGED <<target, parsed>>

\* The provider puts one more tokenBalanceChanges entry into the last account.
AddTokenChange(tbc) ==
    /\ parsed = NotParsed
    /\ tx.accountData # <<>>
    /\ NumTokenChanges(tx.accountData) < MaxTokenChanges
    /\ tx' = [tx EXCEPT !.accountData[Len(tx.accountData)].tokenBalanceChanges =
                             Append(@, tbc)]
    /\ UNCHANGED <<target, parsed>>

\* parseSwap(tx, targetUser) is called on the payload.
CallParseSwap(targetUser) ==
    /\ parsed = NotParsed
    /\ target' = targetUser
    /\ parsed' = <<parseSwap(tx, targetUser)>>
    /\ UNCHANGED tx

----------------------------------------------------------------------------
(* CacheService: subscriptions, subscriber sets, the active set *)

\* The modelled fields of a UserSubscription; createdAt and updatedAt are not
\* modelled.
SubscriptionKinds ==
    {[type |-> "watch", tokenBuyCount |-> 0, watchConfig |-> FALSE, copyPercentage |-> 100],
     [type |-> "trade", tokenBuyCount |-> 0, watchConfig |-> FALSE, copyPercentage |-> 50],
     [type |-> "trade", tokenBuyCount |-> 1, watchConfig |-> TRUE, copyPercentage |-> 50]}

\* the (userId, kolWallet) pairs subscriptions are created for
SubscribedPairs == {<<"U1", "K1">>, <<"U1", "K2">>, <<"U2", "K1">>}

SubscriptionInputs ==
    {[userId |-> pair[1], kolWallet |-> pair[2], type |-> kind.type,
      tokenBuyCount |-> kind.tokenBuyCount, watchConfig |-> kind.watchConfig,
      copyPercentage |-> kind.copyPercentage] :
        pair \in SubscribedPairs, kind \in SubscriptionKinds}

\* {...subscription, id, createdAt, updatedAt}
Stored(subscription, id) ==
    [id |-> id, userId |-> subscription.userId, kolWallet |-> subscription.kolWallet,
     type |-> subscription.type, tokenBuyCount |-> subscription.tokenBuyCount,
     watchConfig |-> subscription.watchConfig,
     copyPercentage |-> subscription.copyPercentage]

\* the input fields of a stored subscription (everything but id)
InputOf(sub) ==
    [userId |-> sub.userId, kolWallet |-> sub.kolWallet, type |-> sub.type,
     tokenBuyCount |-> sub.tokenBuyCount, watchConfig |-> sub.watchConfig,
     copyPercentage |-> sub.copyPercentage]

EmptyRegistry ==
    [subs |-> [u \in Users |-> <<>>],
     subscribers |-> [k \in KOLs |-> {}],
     active |-> {}]

\* getUserSubscriptions: the stored list, [] when the key is absent
getUserSubscriptions(R, userId) == R.subs[userId]

\* existingSubscriptions.filter(sub => sub.kolWallet !== kolWallet)
filterOthers_keepAll(subscriptions, kolWallet) == subscriptions
filterOthers(subscriptions, kolWallet) ==
    SelectSeq(subscriptions, LAMBDA sub : sub.kolWallet # kolWallet)

\* getWatchedKOLWallets
getWatchedKOLWallets(R) == R.active

\* addKOLWallet: sadd(active, walletAddress)
addKOLWallet(R, walletAddress) == [R EXCEPT !.active = @ \cup {walletAddress}]

\* removeKOLWallet: srem(active, walletAddress)
removeKOLWallet(R, walletAddress) == [R EXCEPT !.active = @ \ {walletAddress}]

\* addKOLWalletSubscriber: sadd(subscribers:kolWallet, userId)
addKOLWalletSubscriber(R, kolWallet, userId) ==
    [R EXCEPT !.subscribers[kolWallet] = @ \cup {userId}]

\* removeKOLWalletSubscriber: srem; if scard = 0, removeKOLWallet and del
\* removeKOLWalletSubscriber without its srem
removeKOLWalletSubscriber_kept(R, kolWallet, userId) == R

removeKOLWalletSubscriber(R, kolWallet, userId) ==
    LET R1 == [R EXCEPT !.subscribers[kolWallet] = @ \ {userId}]
    IN  IF Cardinality(R1.subscribers[kolWallet]) = 0
        THEN removeKOLWallet(R1, kolWallet)
        ELSE R1

\* addSubscription: filter, push, setex, addKOLWalletSubscriber
addSubscription(R, subscription, id) ==
    LET existingSubscriptions == getUserSubscriptions(R, subscription.userId)
        filteredSubscriptions ==
            Append(filterOthers(existingSubscriptions, subscription.kolWallet),
                   Stored(subscription, id))
        R1 == [R EXCEPT !.subs[subscription.userId] = filteredSubscriptions]
    IN  addKOLWalletSubscriber(R1, subscription.kolWallet, subscription.userId)

\* removeSubscription: filter, setex or del, removeKOLWalletSubscriber
removeSubscription(R, userId, kolWallet) ==
    LET existingSubscriptions == getUserSubscriptions(R, userId)
        filteredSubscriptions == filterOthers(existingSubscriptions, kolWallet)
        R1 == [R EXCEPT !.subs[userId] = filteredSubscriptions]
    IN  removeKOLWalletSubscriber(R1, kolWallet, userId)

\* getUsersForKOL: smembers(subscribers:kolWallet)
getUsersForKOL(R, kolWallet) ==
    IF kolWallet \in DOMAIN R.subscribers THEN R.subscribers[kolWallet] ELSE {}

\* userSubscriptions.find(sub => sub.kolWallet === kolWallet), as a set of at
\* most one element
findForKOL(subscriptions, kolWallet) ==
    LET matches == {i \in 1 .. Len(subscriptions) : subscriptions[i].kolWallet = kolWallet}
    IN  IF matches = {} THEN {}
        ELSE {subscriptions[CHOOSE i \in matches : \A j \in matches : i <= j]}

\* getSubscriptionsForKOL: for each subscriber, the subscription found in the
\* subscriber's list (the order of smembers is not modelled)
getSubscriptionsForKOL(R, kolWallet) ==
    UNION {findForKOL(getUserSubscriptions(R, userId), kolWallet) :
              userId \in getUsersForKOL(R, kolWallet)}

HasSubscription(R, userId, kolWallet) ==
    findForKOL(R.subs[userId], kolWallet) # {}

NoHist == [op |-> "none", userId |-> "", kolWallet |-> "", sub |-> <<>>,
           afterAdd |-> FALSE, prev |-> <<>>, pre |-> <<>>]

\* a direct call of CacheService.addSubscription
CallAddSubscription(subscription, id) ==
    /\ registry' = addSubscription(registry, subscription, id)
    /\ hist' = [op |-> "addSubscription",
                userId |-> subscription.userId, kolWallet |-> subscription.kolWallet,
                sub |-> <<subscription>>,
                afterAdd |-> /\ hist.op = "addSubscription"
                             /\ hist.userId = subscription.userId
                             /\ hist.kolWallet = subscription.kolWallet,
                prev |-> IF /\ hist.op = "addSubscription"
                            /\ hist.userId = subscription.userId
                            /\ hist.kolWallet = subscription.kolWallet
                         THEN hist.sub ELSE <<>>,
                pre |-> IF HasSubscription(registry, subscription.userId,
                                           subscription.kolWallet)
                        THEN <<>> ELSE <<registry>>]
    /\ UNCHANGED provider

\* a direct call of CacheService.removeSubscription
CallRemoveSubscription(userId, kolWallet) ==
    /\ registry' = removeSubscription(registry, userId, kolWallet)
    /\ hist' = [op |-> "removeSubscription",
                userId |-> userId, kolWallet |-> kolWallet, sub |-> <<>>,
                afterAdd |-> /\ hist.op = "addSubscription"
                             /\ hist.userId = userId
                             /\ hist.kolWallet = kolWallet,
                prev |-> <<>>,
                pre |-> IF /\ hist.op = "addSubscription"
                           /\ hist.userId = userId
                           /\ hist.kolWallet = kolWallet
                        THEN hist.pre ELSE <<>>]
    /\ UNCHANGED provider

\* a direct call of CacheService.addKOLWallet
CallAddKOLWallet(walletAddress) ==
    /\ registry' = addKOLWallet(registry, walletAddress)
    /\ hist' = NoHist
    /\ UNCHANGED provider

\* a direct call of CacheService.removeKOLWallet
CallRemoveKOLWallet(walletAddress) ==
    /\ registry' = removeKOLWallet(registry, walletAddress)
    /\ hist' = NoHist
    /\ UNCHANGED provider

\* config.cache.ttl.subscriptions: SUBSCRIPTION_TTL, 0 ("no expiry") by default
ttlSubscriptions == 0

\* the seconds addSubscription and removeSubscription hand to setex:
\* config.cache.ttl.subscriptions || 86400
setexSeconds(ttl) == IF ttl = 0 THEN 86400 ELSE ttl

\* The store drops a user's subscriptions key when the seconds given to setex
\* run out.
ExpireUserSubscriptions(userId) ==
    /\ setexSeconds(ttlSubscriptions) > 0
    /\ registry.subs[userId] # <<>>
    /\ registry' = [registry EXCEPT !.subs[userId] = <<>>]
    /\ hist' = NoHist
    /\ UNCHANGED provider

----------------------------------------------------------------------------
(* HeliusWebhookService registry operations and their RPC methods *)

\* The outcome of a service operation: the registry and the provider's address
\* list it leaves, and whether it threw.
Outcome(R, P, threw) == [registry |-> R, provider |-> P, threw |-> threw]

\* addKolWalletToWebhook(walletAddress[]): appendAddressesToWebhook, then
\* addKOLWallet for every wallet that was not active; appendOk = FALSE is the
\* provider call throwing.
addKolWalletToWebhook(R, P, walletAddress, appendOk) ==
    IF appendOk
    THEN Outcome([R EXCEPT !.active =
                      @ \cup {wallet \in walletAddress :
                                 wallet \notin getWatchedKOLWallets(R)}],
                 P \cup walletAddress, FALSE)
    ELSE Outcome(R, P, TRUE)

\* removeKOLWalletWebhook(walletAddress): removeAddressesFromWebhook, then
\* removeKOLWallet
removeKOLWalletWebhook(R, P, walletAddress, removeOk) ==
    IF removeOk
    THEN Outcome(removeKOLWallet(R, walletAddress), P \ {walletAddress}, FALSE)
    ELSE Outcome(R, P, TRUE)

\* subscribeToKOL: addSubscription, then addKolWalletToWebhook if the KOL is
\* not active
subscribeToKOL(R, P, subscription, id, providerOk) ==
    LET R1 == addSubscription(R, subscription, id)
    IN  IF subscription.kolWallet \notin getWatchedKOLWallets(R1)
        THEN addKolWalletToWebhook(R1, P, {subscription.kolWallet}, providerOk)
        ELSE Outcome(R1, P, FALSE)

\* unsubscribeFromKOL: removeSubscription, then removeKOLWalletWebhook if no
\* subscription for the KOL is left
unsubscribeFromKOL(R, P, userId, kolWallet, providerOk) ==
    LET R1 == removeSubscription(R, userId, kolWallet)
    IN  IF Cardinality(getSubscriptionsForKOL(R1, kolWallet)) = 0
        THEN removeKOLWalletWebhook(R1, P, kolWallet, providerOk)
        ELSE Outcome(R1, P, FALSE)

\* The RPC server handles one request at a time (prefetch 1).

\* case "createUserSubscription"
Rpc_createUserSubscription(subscription, id, providerOk) ==
    LET o == subscribeToKOL(registry, provider, subscription, id, providerOk)
    IN  /\ registry' = o.registry
        /\ provider' = o.provider
        /\ hist' = NoHist

\* case "removeUserSubscription"
Rpc_removeUserSubscription(userId, kolWallet, providerOk) ==
    LET o == unsubscribeFromKOL(registry, provider, userId, kolWallet, providerOk)
    IN  /\ registry' = o.registry
        /\ provider' = o.provider
        /\ hist' = NoHist

\* case "addKolWalletToWebhook"
Rpc_addKolWalletToWebhook(kolWallets, providerOk) ==
    LET o == addKolWalletToWebhook(registry, provider, kolWallets, providerOk)
    IN  /\ registry' = o.registry
        /\ provider' = o.provider
        /\ hist' = NoHist

\* case "removeKolWalletFromWebhook"
Rpc_removeKolWalletFromWebhook(kolWallet, providerOk) ==
    LET o == removeKOLWalletWebhook(registry, provider, kolWallet, providerOk)
    IN  /\ registry' = o.registry
        /\ provider' = o.provider
        /\ hist' = NoHist

----------------------------------------------------------------------------
(* The provider requests of the registry operations, and                   *)
(* HeliusWebhookIntegration.syncWallets                                     *)

\* one request to the provider: the method and the addresses passed to it
Request(method, addresses) == [method |-> method, addresses |-> addresses]

\* subscribeToKOL: addKolWalletToWebhook, and with it
\* helius.appendAddressesToWebhook, is called if the KOL is not active after
\* addSubscription
subscribeToKOL_requests(R, subscription, id) ==
    IF subscription.kolWallet
           \notin getWatchedKOLWallets(addSubscription(R, subscription, id))
    THEN <<Request("appendAddressesToWebhook", {subscription.kolWallet})>>
    ELSE <<>>

\* unsubscribeFromKOL: removeKOLWalletWebhook, and with it
\* helius.removeAddressesFromWebhook, is called if kolsSubscriptions.length === 0
unsubscribeFromKOL_requests(R, userId, kolWallet) ==
    IF Cardinality(getSubscriptionsForKOL(removeSubscription(R, userId, kolWallet),
                                          kolWallet)) = 0
    THEN <<Request("removeAddressesFromWebhook", {kolWallet})>>
    ELSE <<>>

\* this.webSocketService?.getMonitoredWallets() || []: the constructor never
\* creates webSocketService
webSocketWallets == {}

\* HeliusWebhookService.getMonitoredWallets: Array.from(this.webhooks.keys()),
\* of a Map that no code of the service adds to
getMonitoredWallets == {}

\* const unavailable = []; for (const wallet of allWallets) {... push ...}
unavailable(allWallets, webhookWallets) ==
    {wallet \in allWallets : wallet \notin webhookWallets}

\* syncWallets: addKolWalletToWebhook(unavailable) if unavailable.length > 0
syncWallets(R, P, providerOk) ==
    IF unavailable(webSocketWallets \cup getMonitoredWallets, getMonitoredWallets) # {}
    THEN addKolWalletToWebhook(R, P,
             unavailable(webSocketWallets \cup getMonitoredWallets, getMonitoredWallets),
             providerOk)
    ELSE Outcome(R, P, FALSE)

syncWallets_requests ==
    IF unavailable(webSocketWallets \cup getMonitoredWallets, getMonitoredWallets) # {}
    THEN <<Request("appendAddressesToWebhook",
                   unavailable(webSocketWallets \cup getMonitoredWallets,
                               getMonitoredWallets))>>
    ELSE <<>>

NoLast == [op |-> "none"]

\* subscribeToKOL(subscription), the provider call succeeding or throwing
CallSubscribeToKOL(subscription, id, providerOk) ==
    /\ Rpc_createUserSubscription(subscription, id, providerOk)
    /\ last' = [op |-> "subscribeToKOL", userId |-> subscription.userId,
                kolWallet |-> subscription.kolWallet, before |-> registry,
                requests |-> subscribeToKOL_requests(registry, subscription, id)]

\* unsubscribeFromKOL(userId, kolWallet)
CallUnsubscribeFromKOL(userId, kolWallet, providerOk) ==
    /\ Rpc_removeUserSubscription(userId, kolWallet, providerOk)
    /\ last' = [op |-> "unsubscribeFromKOL", userId |-> userId,
                kolWallet |-> kolWallet, before |-> registry,
                requests |-> unsubscribeFromKOL_requests(registry, userId, kolWallet)]

\* The subscriptions:user:{userId} key runs out while the subscriber sets and
\* the active set (config.cache.ttl.kolWallets = 0) stay.
ExpireSubscriptionsKey(userId) ==
    /\ ExpireUserSubscriptions(userId)
    /\ last' = NoLast

\* syncWallets(); afterSync: the call before it was a syncWallets too
CallSyncWallets(providerOk) ==
    LET o == syncWallets(registry, provider, providerOk)
    IN  /\ registry' = o.registry
        /\ provider' = o.provider
        /\ hist' = NoHist
        /\ last' = [op |-> "syncWallets", afterSync |-> last.op = "syncWallets",
                    requests |-> syncWallets_requests]

----------------------------------------------------------------------------
(* The webhook dispatcher: HeliusWebhookService.processTransaction and        *)
(* CopyTradingService.processWebhookData                                      *)

Null == "null"

RawPlusOne  == [neg |-> FALSE, digits |-> 10, decimals |-> 1]
RawMinusOne == [neg |-> TRUE,  digits |-> 1,  decimals |-> 0]

Tbc(user, mint, raw) == [userAccount |-> user, mint |-> mint, rawTokenAmount |-> raw]
Acc(account, native, tbcs) ==
    [account |-> account, nativeBalanceChange |-> native, tokenBalanceChanges |-> tbcs]
Transfer(from, to, mint) == [fromUserAccount |-> from, toUserAccount |-> to, mint |-> mint]

\* The provider's payloads the dispatcher is run on: a buy and a sell of M1
\* against the pool P1, a swap of M1 for M2 (two non-native mints), and a plain
\* transfer.
BuyTx(kol) ==
    [signature |-> <<"buy", kol>>, type |-> "SWAP", feePayer |-> kol,
     accountData |-> <<Acc(kol, 0 - LAMPORTS_PER_SOL, <<Tbc(kol, "M1", RawPlusOne)>>),
                       Acc("P1", LAMPORTS_PER_SOL, <<Tbc("P1", "M1", RawMinusOne)>>)>>,
     nativeTransfers |-> <<Transfer(kol, "P1", SOL_MINT)>>,
     tokenTransfers |-> <<Transfer("P1", kol, "M1")>>]

SellTx(kol) ==
    [signature |-> <<"sell", kol>>, type |-> "SWAP", feePayer |-> kol,
     accountData |-> <<Acc(kol, LAMPORTS_PER_SOL, <<Tbc(kol, "M1", RawMinusOne)>>),
                       Acc("P1", 0 - LAMPORTS_PER_SOL, <<Tbc("P1", "M1", RawPlusOne)>>)>>,
     nativeTransfers |-> <<Transfer("P1", kol, SOL_MINT)>>,
     tokenTransfers |-> <<Transfer(kol, "P1", "M1")>>]

TokenSwapTx(kol) ==
    [signature |-> <<"tokenswap", kol>>, type |-> "SWAP", feePayer |-> kol,
     accountData |-> <<Acc(kol, 0 - LAMPORTS_PER_SOL,
                           <<Tbc(kol, "M1", RawPlusOne), Tbc(kol, "M2", RawMinusOne)>>)>>,
     nativeTransfers |-> <<>>,
     tokenTransfers |-> <<Transfer("P1", kol, "M1"), Transfer(kol, "P1", "M2")>>]

TransferTx(kol) ==
    [signature |-> <<"transfer", kol>>, type |-> "TRANSFER", feePayer |-> kol,
     accountData |-> <<Acc(kol, 0 - LAMPORTS_PER_SOL, <<>>),
                       Acc("P1", LAMPORTS_PER_SOL, <<>>)>>,
     nativeTransfers |-> <<Transfer(kol, "P1", SOL_MINT)>>,
     tokenTransfers |-> <<>>]

Transactions ==
    {BuyTx("K1"), SellTx("K1"), TokenSwapTx("K1"), TransferTx("K1"), BuyTx("K2")}

Payloads == UNION {[1 .. n -> Transactions] : n \in 1 .. MaxBatch}

\* swapTypes.some(type => transaction.type?.includes(type))
swapTypes == {"SWAP", "TOKEN_TRADE", "DeFi_SWAP", "EXCHANGE"}
isSwapTransaction(transaction) == transaction.type \in swapTypes

\* the addresses findWalletAddress looks at, in the order it looks at them
RECURSIVE TransferAddresses(_)
TransferAddresses(transfers) ==
    IF transfers = <<>> THEN <<>>
    ELSE <<Head(transfers).fromUserAccount, Head(transfers).toUserAccount>>
         \o TransferAddresses(Tail(transfers))

ScannedAddresses(transaction) ==
    [i \in 1 .. Len(transaction.accountData) |-> transaction.accountData[i].account]
    \o TransferAddresses(transaction.nativeTransfers)
    \o TransferAddresses(transaction.tokenTransfers)
    \o <<transaction.feePayer>>

\* findWalletAddress: the first scanned address that is in the active set
findWalletAddress(R, transaction) ==
    LET activeKols == getWatchedKOLWallets(R)
        addresses == ScannedAddresses(transaction)
        hits == {i \in 1 .. Len(addresses) : addresses[i] \in activeKols}
    IN  IF hits = {} THEN Null
        ELSE addresses[CHOOSE i \in hits : \A j \in hits : i <= j]

\* parseTradeDetailsFromWebhook: the initial values of its result
DefaultDetails ==
    [tradeType |-> "buy", tokenIn |-> "UNKNOWN", tokenOut |-> "UNKNOWN",
     amountIn |-> 0, amountOut |-> 0, mint |-> "UNKNOWN"]

\* if (parsedSwap?.side === 'buy') {...} else if (parsedSwap?.side === 'sell') {...}
DetailsOfSwap(parsedSwap) ==
    IF parsedSwap.side = "buy"
    THEN [tradeType |-> "buy",
          tokenIn |-> parsedSwap.tokenMint, amountIn |-> parsedSwap.tokenAmount,
          tokenOut |-> SOL_MINT, amountOut |-> parsedSwap.solAmount,
          mint |-> parsedSwap.tokenMint]
    ELSE IF parsedSwap.side = "sell"
    THEN [tradeType |-> "sell",
          tokenIn |-> SOL_MINT, amountIn |-> parsedSwap.solAmount,
          tokenOut |-> parsedSwap.tokenMint, amountOut |-> parsedSwap.tokenAmount,
          mint |-> parsedSwap.tokenMint]
    ELSE DefaultDetails

parseTradeDetailsFromWebhook(transaction) ==
    IF Len(transaction.tokenTransfers) > 0
    THEN DetailsOfSwap(parseSwap(transaction, transaction.feePayer))
    ELSE DefaultDetails

\* the KOLTrade built of the trade details; id is what uuidv4() returned
KOLTrade(details, transaction, walletAddress, id) ==
    [id |-> id, kolWallet |-> walletAddress, signature |-> transaction.signature,
     tokenIn |-> details.tokenIn, tokenOut |-> details.tokenOut,
     amountIn |-> details.amountIn, amountOut |-> details.amountOut,
     tradeType |-> details.tradeType, mint |-> details.mint]

parseKOLTradeFromWebhook(transaction, walletAddress, id) ==
    KOLTrade(parseTradeDetailsFromWebhook(transaction), transaction, walletAddress, id)

\* What the dispatcher sends out or writes: the trade history write
\* (storeKOLTrade), the performBatchTrades RPC call, the kol_trade_detected
\* event and the client_notification messages.
Emission(kind, trade, userId, trades, subscriptions) ==
    [kind |-> kind, trade |-> trade, userId |-> userId, trades |-> trades,
     subscriptions |-> subscriptions]

\* subscriptions.filter(subscription => subscription.type === "trade").map(...)
BatchTrades(subscriptions, kolTrade) ==
    {[agentId |-> subscription.userId, tradeType |-> kolTrade.tradeType,
      mint |-> kolTrade.mint, watchConfig |-> subscription.watchConfig] :
        subscription \in {sub \in subscriptions : sub.type = "trade"}}

\* storeKOLTrade(kolTrade), then the performBatchTrades call if
\* subscriptions.length > 0
TransactionEmissions(kolTrade, subscriptions) ==
    <<Emission("storeKOLTrade", kolTrade, "", {}, {})>>
    \o (IF Cardinality(subscriptions) > 0
        THEN <<Emission("performBatchTrades", kolTrade, "",
                        BatchTrades(subscriptions, kolTrade), {})>>
        ELSE <<>>)

\* if (walletAddress) {...}
ProcessForWallet(R, transaction, walletAddress, id) ==
    IF walletAddress = Null THEN <<>>
    ELSE TransactionEmissions(parseKOLTradeFromWebhook(transaction, walletAddress, id),
                              getSubscriptionsForKOL(R, walletAddress))

\* HeliusWebhookService.processTransaction: the emissions for one transaction
processTransaction(R, transaction, id) ==
    IF ~isSwapTransaction(transaction) THEN <<>>
    ELSE ProcessForWallet(R, transaction, findWalletAddress(R, transaction), id)

\* HeliusWebhookService.processWebhookData: every transaction in turn; the
\* trade parsed for the i-th transaction gets the id i
RECURSIVE processWebhookData(_, _, _)
processWebhookData(R, data, i) ==
    IF i > Len(data) THEN <<>>
    ELSE processTransaction(R, data[i], i) \o processWebhookData(R, data, i + 1)

\* the elements of a set in the order the loop takes them
RECURSIVE SeqOfSet(_)
SeqOfSet(S) ==
    IF S = {} THEN <<>>
    ELSE LET x == CHOOSE x \in S : TRUE IN <<x>> \o SeqOfSet(S \ {x})

\* data.amountIn || 0: data is the payload, an array, and an array has no
\* amountIn property
amountInOrZero(data) == 0

\* (data.amountIn || 0) * (subscription.copyPercentage / 100) || 0; the
\* product is 0 or a multiple of 100 here, so that the division is exact
estimatedCopyAmount(data, subscription) ==
    (amountInOrZero(data) * subscription.copyPercentage) \div 100

\* for (const subscription of subscriptions) publishNotification(...)
Notifications(subscriptions, kolTrade, data) ==
    LET order == SeqOfSet(subscriptions)
    IN  [i \in 1 .. Len(order) |->
            [kind |-> "client_notification", trade |-> kolTrade,
             userId |-> order[i].userId, trades |-> {}, subscriptions |-> {order[i]},
             estimatedCopyAmount |-> estimatedCopyAmount(data, order[i])]]

\* publishEvent(kolTradeDetected, ...) and the notification loop, reached only
\* if getTokenInfo returned (tokenInfoOk)
Published(kolTrade, subscriptions, tokenInfoOk, data) ==
    IF tokenInfoOk
    THEN <<Emission("kol_trade_detected", kolTrade, "", {}, subscriptions)>>
         \o Notifications(subscriptions, kolTrade, data)
    ELSE <<>>

\* publishMessage throws in the publish number failAt of the delivery (the
\* trade-detected event is number 1, the i-th notification number 1 + i): the
\* loop is left for the catch block, which logs the error
PublishedBefore(publishes, failAt) ==
    IF failAt > Len(publishes) THEN publishes ELSE SubSeq(publishes, 1, failAt - 1)

PublishFaults == 1 .. 1 + Cardinality(Users)

\* CopyTradingService.processWebhookData: the emissions for one delivery;
\* tokenInfoOk = FALSE is getTokenInfo throwing
CopyTradingService_processWebhookData(R, data, tokenInfoOk) ==
    processWebhookData(R, data, 1)
    \o Published(parseKOLTradeFromWebhook(data[1], data[1].feePayer, 0),
                 getSubscriptionsForKOL(R, data[1].feePayer), tokenInfoOk, data)

\* the emissions for one delivery in which the publish number failAt throws
processWebhookData_publishThrows(R, data, failAt) ==
    processWebhookData(R, data, 1)
    \o PublishedBefore(Published(parseKOLTradeFromWebhook(data[1], data[1].feePayer, 0),
                                 getSubscriptionsForKOL(R, data[1].feePayer), TRUE, data),
                       failAt)

\* POST /helius-webhook with the payload data
PostHeliusWebhook(data, tokenInfoOk) ==
    /\ out = <<>>
    /\ out' = <<[data |-> data, tokenInfoOk |-> tokenInfoOk, countBefore |-> count,
                 failAt |-> 0,
                 emissions |-> CopyTradingService_processWebhookData(registry, data,
                                                                      tokenInfoOk)]>>
    /\ DispatchOnly

\* POST /helius-webhook with the payload data, one publish of the delivery
\* throwing
PostHeliusWebhookPublishThrows(data, failAt) ==
    /\ out = <<>>
    /\ failAt <= 1 + Cardinality(getSubscriptionsForKOL(registry, data[1].feePayer))
    /\ out' = <<[data |-> data, tokenInfoOk |-> TRUE, countBefore |-> count,
                 failAt |-> failAt,
                 emissions |-> processWebhookData_publishThrows(registry, data, failAt)]>>
    /\ DispatchOnly

\* The emissions of the last delivery are taken.
TakeEmissions ==
    /\ out # <<>>
    /\ out' = <<>>
    /\ DispatchOnly

\* A complete incrementAndValidatePurchase(userId, tokenMint, limit, _) call
\* of some user of the tracker, with no other call in between.
PurchaseCall(key) ==
    /\ out = <<>>
    /\ LET newCount == incr(count[key])
       IN  IF wasAtLimit(newCount, limit)
           THEN /\ count' = [count EXCEPT ![key] = decr(newCount)]
                /\ UNCHANGED record
           ELSE /\ count' = [count EXCEPT ![key] = newCount]
                /\ record' = [record EXCEPT ![key] = PurchaseRecord(newCount, limit)]
    /\ UNCHANGED <<limit, call, ret, succ, disturbed, ncalls>>
    /\ QuotaOnly

\* The RPC methods, between two deliveries.
Subscribe(subscription, id, providerOk) ==
    /\ out = <<>>
    /\ Rpc_createUserSubscription(subscription, id, providerOk)
    /\ RegistryOnly

Unsubscribe(userId, kolWallet, providerOk) ==
    /\ out = <<>>
    /\ Rpc_removeUserSubscription(userId, kolWallet, providerOk)
    /\ RegistryOnly

----------------------------------------------------------------------------
(* TokenPurchaseTracker called by one caller at a time, the store commands  *)
(* succeeding or failing                                                    *)

\* what a call gives its caller: a returned value, or an error raised
Returned(value) == [threw |-> FALSE, value |-> value]
Thrown == [threw |-> TRUE, value |-> <<>>]

\* where a call fails: nowhere, in ensureConnection, or in one store command
CanPurchaseFaults == {"none", "connect", "get"}
IncrementFaults == {"none", "connect", "exec", "decr", "set"}

\* canUserPurchaseToken, the try block: canPurchase = count < maxPurchaseCount,
\* remainingPurchases = Math.max(0, maxPurchaseCount - count)
canPurchaseResult_inclusive(cnt, maxPurchaseCount) ==
    Returned([canPurchase |-> cnt <= maxPurchaseCount, currentCount |-> cnt,
              maxCount |-> maxPurchaseCount,
              remainingPurchases |->
                  IF maxPurchaseCount - cnt > 0 THEN maxPurchaseCount - cnt ELSE 0])
canPurchaseResult(cnt, maxPurchaseCount) ==
    Returned([canPurchase |-> cnt < maxPurchaseCount, currentCount |-> cnt,
              maxCount |-> maxPurchaseCount,
              remainingPurchases |->
                  IF maxPurchaseCount - cnt > 0 THEN maxPurchaseCount - cnt ELSE 0])

\* canUserPurchaseToken, the catch block
canPurchaseOnError_rethrow(maxPurchaseCount) == Thrown
canPurchaseOnError(maxPurchaseCount) ==
    Returned([canPurchase |-> TRUE, currentCount |-> 0, maxCount |-> maxPurchaseCount,
              remainingPurchases |-> maxPurchaseCount])

canUserPurchaseToken(cnt, maxPurchaseCount, fault) ==
    IF fault = "none" THEN canPurchaseResult(cnt, maxPurchaseCount)
    ELSE canPurchaseOnError(maxPurchaseCount)

\* incrementAndValidatePurchase: what it returns
IavpReturn(success, newCount, atLimit) ==
    Returned([success |-> success, newCount |-> newCount, wasAtLimit |-> atLimit])

\* incrementAndValidatePurchase, the catch block
incrementOnError == IavpReturn(FALSE, 0, FALSE)

\* the counter and the record a call leaves, and what it gives its caller
IavpOutcome(cnt, rec, result) == [count |-> cnt, record |-> rec, result |-> result]

\* from `const newCount = firstResult[1]` on; a failing command (decr, set)
\* has taken effect in the store (applied) or has not
IavpAfterExec(newCount, rec, maxPurchaseCount, fault, applied) ==
    IF wasAtLimit(newCount, maxPurchaseCount)
    THEN IF fault = "decr"
         THEN IavpOutcome(IF applied THEN decr(newCount) ELSE newCount, rec,
                          incrementOnError)
         ELSE IavpOutcome(decr(newCount), rec, IavpReturn(FALSE, newCount - 1, TRUE))
    ELSE IF fault = "set"
         THEN IavpOutcome(newCount,
                          IF applied THEN PurchaseRecord(newCount, maxPurchaseCount)
                                     ELSE rec,
                          incrementOnError)
         ELSE IavpOutcome(newCount, PurchaseRecord(newCount, maxPurchaseCount),
                          IavpReturn(TRUE, newCount, FALSE))

\* one complete call; cnt and rec are the counter and the record before it
incrementAndValidatePurchase(cnt, rec, maxPurchaseCount, fault, applied) ==
    IF fault = "connect" THEN IavpOutcome(cnt, rec, incrementOnError)
    ELSE IF fault = "exec"
    THEN IavpOutcome(IF applied THEN incr(cnt) ELSE cnt, rec, incrementOnError)
    ELSE IavpAfterExec(incr(cnt), rec, maxPurchaseCount, fault, applied)

\* tracker.canUserPurchaseToken(userId, tokenMint, limit)
CallCanPurchase(key, fault) ==
    /\ last' = [op |-> "canUserPurchaseToken", key |-> key, fault |-> fault,
                countBefore |-> count[key], recordBefore |-> record[key],
                result |-> canUserPurchaseToken(count[key], limit, fault)]
    /\ UNCHANGED <<count, record, trail>>

\* tracker.incrementAndValidatePurchase(userId, tokenMint, limit, _); a fault
\* is chosen only at a command the call comes to
CallIncrement(key, fault, applied) ==
    /\ Len(trail) < MaxCalls
    /\ fault = "decr" => wasAtLimit(incr(count[key]), limit)
    /\ fault = "set" => ~wasAtLimit(incr(count[key]), limit)
    /\ fault \in {"none", "connect"} => applied
    /\ LET o == incrementAndValidatePurchase(count[key], record[key], limit, fault, applied)
       IN  /\ count' = [count EXCEPT ![key] = o.count]
           /\ record' = [record EXCEPT ![key] = o.record]
           /\ last' = [op |-> "incrementAndValidatePurchase", key |-> key,
                       fault |-> fault, countBefore |-> count[key],
                       recordBefore |-> record[key], result |-> o.result]
           /\ trail' = Append(trail, [fault |-> fault, result |-> o.result])

\* tracker.resetPurchaseCount(userId, tokenMint)
CallReset(key) ==
    /\ count' = [count EXCEPT ![key] = 0]
    /\ record' = [record EXCEPT ![key] = Absent]
    /\ last' = [op |-> "resetPurchaseCount", key |-> key, fault |-> "none",
                countBefore |-> count[key], recordBefore |-> record[key],
                result |-> Returned(TRUE)]
    /\ trail' = <<>>

----------------------------------------------------------------------------
(* CacheService.addSubscription and removeSubscription with a store command *)
(* failing, and the RPC server's consume callback                           *)

\* the subscriptions created while store commands fail: one per pair
FaultSubscriptions == {subscription \in SubscriptionInputs : subscription.type = "watch"}

\* the store command of addSubscription that fails: none, the setex of the
\* user's list, or the sadd of addKOLWalletSubscriber
AddFaults == {"none", "setex", "sadd"}

\* the store command of removeSubscription that fails: none, the setex / del
\* of the user's list, the srem of removeKOLWalletSubscriber, or the srem of
\* removeKOLWallet
RemoveFaults == {"none", "write", "srem", "removeKOLWallet"}

\* what a call leaves and gives: the registry, what the caller gets, and
\* whether a store write or a provider call of the call failed
CallResult(R, result, failed) == [registry |-> R, result |-> result, failed |-> failed]

\* {message, success, data: {subscription}}
SubscriptionResult(success, subscriptions) ==
    [success |-> success, subscription |-> subscriptions]

\* addKOLWalletSubscriber: try { sadd } catch { console.error }
addKOLWalletSubscriberOrLog(R, kolWallet, userId, fault) ==
    IF fault = "sadd" THEN R ELSE addKOLWalletSubscriber(R, kolWallet, userId)

\* removeKOLWalletSubscriber: try { srem; scard; removeKOLWallet; del }
\* catch { console.error }
removeKOLWalletSubscriberOrLog(R, kolWallet, userId, fault) ==
    IF fault = "srem" THEN R
    ELSE IF fault = "removeKOLWallet"
    THEN [R EXCEPT !.subscribers[kolWallet] = @ \ {userId}]
    ELSE removeKOLWalletSubscriber(R, kolWallet, userId)

\* the fault is at a command the call comes to
RemoveFaultReached(R, userId, kolWallet, fault) ==
    fault = "removeKOLWallet" => R.subscribers[kolWallet] \ {userId} = {}

\* addSubscription, the store commands succeeding or one of them failing
addSubscriptionResult(R, subscription, id, fault) ==
    IF fault = "setex" THEN CallResult(R, Thrown, TRUE)
    ELSE CallResult(
             addKOLWalletSubscriberOrLog(
                 [R EXCEPT !.subs[subscription.userId] =
                      Append(filterOthers(getUserSubscriptions(R, subscription.userId),
                                          subscription.kolWallet),
                             Stored(subscription, id))],
                 subscription.kolWallet, subscription.userId, fault),
             Returned(SubscriptionResult(TRUE,
                 Append(filterOthers(getUserSubscriptions(R, subscription.userId),
                                     subscription.kolWallet),
                        Stored(subscription, id)))),
             fault # "none")

\* removeSubscription, the store commands succeeding or one of them failing
removeSubscriptionResult(R, userId, kolWallet, fault) ==
    IF fault = "write" THEN CallResult(R, Thrown, TRUE)
    ELSE CallResult(
             removeKOLWalletSubscriberOrLog(
                 [R EXCEPT !.subs[userId] =
                      filterOthers(getUserSubscriptions(R, userId), kolWallet)],
                 kolWallet, userId, fault),
             Returned(SubscriptionResult(TRUE,
                 filterOthers(getUserSubscriptions(R, userId), kolWallet))),
             fault # "none")

\* cacheService.addSubscription(subscription)
CallAddSubscriptionFaulty(subscription, id, fault) ==
    /\ last = NoLast
    /\ LET a == addSubscriptionResult(registry, subscription, id, fault)
       IN  /\ registry' = a.registry
           /\ last' = [op |-> "addSubscription", fault |-> fault,
                       failed |-> a.failed, result |-> a.result]
    /\ UNCHANGED <<provider, hist>>

\* cacheService.removeSubscription(userId, kolWallet)
CallRemoveSubscriptionFaulty(userId, kolWallet, fault) ==
    /\ last = NoLast
    /\ RemoveFaultReached(registry, userId, kolWallet, fault)
    /\ LET r == removeSubscriptionResult(registry, userId, kolWallet, fault)
       IN  /\ registry' = r.registry
           /\ last' = [op |-> "removeSubscription", fault |-> fault,
                       failed |-> r.failed, result |-> r.result]
    /\ UNCHANGED <<provider, hist>>

\* what a service call leaves and gives: the registry, the provider's address
\* list, what the caller gets, and whether a store write or a provider call
\* of the call failed
ServiceResult(R, P, result, failed) ==
    [registry |-> R, provider |-> P, result |-> result, failed |-> failed]

\* subscribeToKOL after addSubscription returned a: addKolWalletToWebhook if
\* the KOL is not active (o is what that call comes to), return
\* sub.data.subscription; an error is rethrown
subscribeAfterAdd(a, o, P, kolWallet) ==
    IF kolWallet \notin getWatchedKOLWallets(a.registry)
    THEN ServiceResult(o.registry, o.provider,
                       IF o.threw THEN Thrown
                       ELSE Returned(a.result.value.subscription),
                       a.failed \/ o.threw)
    ELSE ServiceResult(a.registry, P, Returned(a.result.value.subscription), a.failed)

subscribeToKOLResult(R, P, subscription, id, fault, providerOk) ==
    IF addSubscriptionResult(R, subscription, id, fault).result.threw
    THEN ServiceResult(R, P, Thrown, TRUE)
    ELSE subscribeAfterAdd(
             addSubscriptionResult(R, subscription, id, fault),
             addKolWalletToWebhook(addSubscriptionResult(R, subscription, id, fault).registry,
                                   P, {subscription.kolWallet}, providerOk),
             P, subscription.kolWallet)

\* {message, success, data: {kolWallet, userId}}
UnsubscribeResult(success, kolWallet, userId) ==
    [success |-> success, data |-> [kolWallet |-> kolWallet, userId |-> userId]]

\* unsubscribeFromKOL after removeSubscription returned r:
\* removeKOLWalletWebhook if no subscription for the KOL is left (o is what
\* that call comes to); an error is caught and success: false returned
unsubscribeAfterRemove(r, o, P, userId, kolWallet) ==
    IF Cardinality(getSubscriptionsForKOL(r.registry, kolWallet)) = 0
    THEN ServiceResult(o.registry, o.provider,
                       Returned(UnsubscribeResult(~o.threw, kolWallet, userId)),
                       r.failed \/ o.threw)
    ELSE ServiceResult(r.registry, P,
                       Returned(UnsubscribeResult(TRUE, kolWallet, userId)), r.failed)

unsubscribeFromKOLResult(R, P, userId, kolWallet, fault, providerOk) ==
    IF removeSubscriptionResult(R, userId, kolWallet, fault).result.threw
    THEN ServiceResult(R, P, Returned(UnsubscribeResult(FALSE, kolWallet, userId)), TRUE)
    ELSE unsubscribeAfterRemove(
             removeSubscriptionResult(R, userId, kolWallet, fault),
             removeKOLWalletWebhook(
                 removeSubscriptionResult(R, userId, kolWallet, fault).registry,
                 P, kolWallet, providerOk),
             P, userId, kolWallet)

\* the replyTo and correlationId properties of the requests
ReplyProperties == {[replyTo |-> "q1", correlationId |-> "c1"],
                    [replyTo |-> "q2", correlationId |-> "c2"]}

\* A request: its content (method and args, or a body JSON.parse rejects) and
\* its properties.
RpcRequest(method, args, properties) ==
    [method |-> method, args |-> args,
     replyTo |-> properties.replyTo, correlationId |-> properties.correlationId]

RpcRequests ==
    {RpcRequest("createUserSubscription", [subscription |-> subscription], properties) :
        subscription \in FaultSubscriptions, properties \in ReplyProperties}
    \cup {RpcRequest("removeUserSubscription", [userId |-> userId, kolWallet |-> kolWallet],
                     properties) :
              userId \in Users, kolWallet \in KOLs, properties \in ReplyProperties}
    \cup {RpcRequest(method, <<>>, properties) :
              method \in {"noSuchMethod", Unparseable}, properties \in ReplyProperties}

\* the JSON object of a reply, as far as a caller tells replies apart: whether
\* it has an error field, its success field ("absent" without one), and the
\* data
Body(error, success, content) == [error |-> error, success |-> success, content |-> content]

\* {error: 'Error processing request'}
ErrorObject == Body(TRUE, "absent", <<>>)

\* getServerData(requestData): what the switch returns
getServerData(R, P, request, id, fault, providerOk) ==
    IF request.method = "createUserSubscription"
    THEN subscribeToKOLResult(R, P, request.args.subscription, id, fault, providerOk)
    ELSE IF request.method = "removeUserSubscription"
    THEN unsubscribeFromKOLResult(R, P, request.args.userId, request.args.kolWallet,
                                  fault, providerOk)
    ELSE ServiceResult(R, P, Returned("Invalid method"), FALSE)

\* the responseData of a request: subscription (the list) for
\* createUserSubscription, unsubscribeFromKOL.data for removeUserSubscription,
\* {message: 'Invalid method', ..., data: null} by default
responseData(request, value) ==
    IF request.method = "createUserSubscription" THEN Body(FALSE, "absent", value)
    ELSE IF request.method = "removeUserSubscription"
    THEN Body(FALSE, "absent", value.data)
    ELSE Body(FALSE, "absent", <<>>)

\* handleMessage(msg): JSON.parse, then getServerData
handleMessage(R, P, request, id, fault, providerOk) ==
    IF request.method = Unparseable THEN ServiceResult(R, P, Thrown, FALSE)
    ELSE getServerData(R, P, request, id, fault, providerOk)

\* channel.sendToQueue(msg.properties.replyTo, content, {correlationId})
Reply(request, body) ==
    [replyTo |-> request.replyTo, correlationId |-> request.correlationId, body |-> body]

\* the consume callback around handleMessage: try { sendToQueue(responseData) }
\* catch { sendToQueue(error object) } finally { ack }
consumeCallback_noCatchReply(request, handled) ==
    [sent |-> IF handled.threw THEN <<>>
              ELSE <<Reply(request, responseData(request, handled.value))>>,
     acks |-> 1]
consumeCallback(request, handled) ==
    [sent |-> IF handled.threw THEN <<Reply(request, ErrorObject)>>
              ELSE <<Reply(request, responseData(request, handled.value))>>,
     acks |-> 1]

\* the fault is at a command the request comes to
RpcFaultReached(R, request, fault, providerOk) ==
    IF request.method = "createUserSubscription" THEN fault \in AddFaults
    ELSE IF request.method = "removeUserSubscription"
    THEN /\ fault \in RemoveFaults
         /\ RemoveFaultReached(R, request.args.userId, request.args.kolWallet, fault)
    ELSE fault = "none" /\ providerOk

\* The RPC server consumes one request (prefetch 1): the callback from
\* handleMessage to the ack.
RpcConsume(request, id, fault, providerOk) ==
    /\ last = NoLast
    /\ RpcFaultReached(registry, request, fault, providerOk)
    /\ LET h == handleMessage(registry, provider, request, id, fault, providerOk)
       IN  /\ registry' = h.registry
           /\ provider' = h.provider
           /\ last' = [op |-> "rpc", request |-> request, fault |-> fault,
                       failed |-> h.failed, handled |-> h.result,
                       callback |-> consumeCallback(request, h.result)]
    /\ hist' = NoHist

\* The caller has its result (the reply is with the broker); the next call
\* or request begins after that.
TakeResult ==
    /\ last # NoLast
    /\ last' = NoLast
    /\ UNCHANGED registryVars

----------------------------------------------------------------------------
(* CacheService.addSubscription and removeSubscription called twice at the  *)
(* same time for one user: the calls interleave at every await              *)

Racers == {"first", "second"}
RaceUser == "U1"

\* const id = uuidv4()
RaceId(r) == IF r = "first" THEN "id1" ELSE "id2"

RaceSubscriptions == {subscription \in FaultSubscriptions : subscription.userId = RaceUser}

\* addSubscription(subscription) and removeSubscription(userId, kolWallet)
RaceCalls ==
    {[op |-> "addSubscription", subscription |-> subscription,
      kolWallet |-> subscription.kolWallet] : subscription \in RaceSubscriptions}
    \cup {[op |-> "removeSubscription", subscription |-> <<>>, kolWallet |-> kolWallet] :
              kolWallet \in KOLs}

\* the registry the two calls find: what up to two earlier addSubscription
\* calls of the user, one after the other, have left
RaceStarts ==
    LET one == {addSubscription(EmptyRegistry, subscription, "id0") :
                    subscription \in RaceSubscriptions}
    IN  {EmptyRegistry} \cup one
        \cup {addSubscription(R, subscription, "id0") :
                  R \in one, subscription \in RaceSubscriptions}

idleRace == [pc |-> "idle", call |-> <<>>, existingSubscriptions |-> <<>>]
NoRace == [start |-> EmptyRegistry, of |-> [r \in Racers |-> idleRace]]

\* a caller enters addSubscription or removeSubscription
RaceCall(r, c) ==
    /\ race.of[r].pc = "idle"
    /\ race' = [race EXCEPT !.of[r] = [pc |-> "get", call |-> c,
                                        existingSubscriptions |-> <<>>]]
    /\ UNCHANGED registry

\* const {data: {subscriptions: existingSubscriptions}} =
\*     await this.getUserSubscriptions(userId)
RaceGet(r) ==
    /\ race.of[r].pc = "get"
    /\ race' = [race EXCEPT !.of[r].pc = "write",
                            !.of[r].existingSubscriptions =
                                getUserSubscriptions(registry, RaceUser)]
    /\ UNCHANGED registry

\* the list the call writes: the list it has read without the KOL's entry,
\* and for addSubscription with the new subscription pushed
filteredSubscriptions(c, existingSubscriptions, id) ==
    IF c.op = "addSubscription"
    THEN Append(filterOthers(existingSubscriptions, c.kolWallet), Stored(c.subscription, id))
    ELSE filterOthers(existingSubscriptions, c.kolWallet)

\* await this.redis.setex(key, ttl, JSON.stringify(filteredSubscriptions)), or
\* await this.redis.del(key) when removeSubscription has filtered the list empty
RaceWrite(r) ==
    /\ race.of[r].pc = "write"
    /\ registry' = [registry EXCEPT !.subs[RaceUser] =
                        filteredSubscriptions(race.of[r].call,
                                              race.of[r].existingSubscriptions, RaceId(r))]
    /\ race' = [race EXCEPT !.of[r].pc =
                    IF race.of[r].call.op = "addSubscription" THEN "sadd" ELSE "srem"]

\* addKOLWalletSubscriber: await this.redis.sadd(key, userId)
RaceSadd(r) ==
    /\ race.of[r].pc = "sadd"
    /\ registry' = addKOLWalletSubscriber(registry, race.of[r].call.kolWallet, RaceUser)
    /\ race' = [race EXCEPT !.of[r].pc = "done"]

\* removeKOLWalletSubscriber: await this.redis.srem(key, userId)
RaceSrem(r) ==
    /\ race.of[r].pc = "srem"
    /\ registry' = [registry EXCEPT !.subscribers[race.of[r].call.kolWallet] = @ \ {RaceUser}]
    /\ race' = [race EXCEPT !.of[r].pc = "scard"]

\* removeKOLWalletSubscriber: const subscribersCount = await this.redis.scard(key);
\* if (subscribersCount === 0) { removeKOLWallet(kolWallet); del(key) }
RaceScard(r) ==
    /\ race.of[r].pc = "scard"
    /\ registry' = IF Cardinality(registry.subscribers[race.of[r].call.kolWallet]) = 0
                   THEN removeKOLWallet(registry, race.of[r].call.kolWallet)
                   ELSE registry
    /\ race' = [race EXCEPT !.of[r].pc = "done"]

\* one whole call on registry R
applyCall(R, c, id) ==
    IF c.op = "addSubscription"
    THEN addSubscription(R, c.subscription, id)
    ELSE removeSubscription(R, RaceUser, c.kolWallet)

----------------------------------------------------------------------------
(* CacheService.storeKOLTrade: the recent-trades sorted sets *)

\* A sorted set is the sequence of its [score, member] entries in rank order:
\* by score, and by member among equal scores.  A member is the tuple of what
\* its string is made of; the string starts with the trade id, so that members
\* compare by their first component.

\* the stop arguments of the two ZREMRANGEBYRANK commands
perKolStop == -101
globalStop == -1001

GlobalKey == "recent"
RecentKeys == KOLs \cup {GlobalKey}

\* the members ZADD is given: trade.id, and JSON.stringify(trade)
IdMember(trade) == <<trade.id>>
JSONstringify(trade) == <<trade.id, trade.kolWallet, trade.timestamp>>

Entry(score, member) == [score |-> score, member |-> member]

RankedBefore(a, b) ==
    \/ a.score < b.score
    \/ a.score = b.score /\ a.member[1] < b.member[1]

Members(sortedSet) == {sortedSet[i] : i \in 1 .. Len(sortedSet)}

\* ZADD key score member: the member is added, or moved to its new score
zadd(sortedSet, score, member) ==
    LET others == SelectSeq(sortedSet, LAMBDA e : e.member # member)
        below == Cardinality({i \in 1 .. Len(others) :
                                 RankedBefore(others[i], Entry(score, member))})
    IN  SubSeq(others, 1, below) \o <<Entry(score, member)>>
            \o SubSeq(others, below + 1, Len(others))

\* a rank argument counted from the end when negative (-1 is the last rank)
Rank(sortedSet, index) == IF index < 0 THEN Len(sortedSet) + index ELSE index

\* ZREMRANGEBYRANK key start stop: the members of the ranks start .. stop
\* (from 0) are removed
zremrangebyrank_none(sortedSet, start, stop) == sortedSet
zremrangebyrank(sortedSet, start, stop) ==
    LET first == IF Rank(sortedSet, start) < 0 THEN 0 ELSE Rank(sortedSet, start)
        last_ == IF Rank(sortedSet, stop) >= Len(sortedSet)
                 THEN Len(sortedSet) - 1 ELSE Rank(sortedSet, stop)
    IN  IF first > last_ THEN sortedSet
        ELSE SubSeq(sortedSet, 1, first) \o SubSeq(sortedSet, last_ + 2, Len(sortedSet))

\* the store command of storeKOLTrade that throws, if any: the catch block
\* logs the error and the commands after it are not run
StoreFaults == {"none", "setex", "zremrangebyrank", "global zremrangebyrank"}

\* the two sorted sets a storeKOLTrade(trade) leaves
storeKOLTrade(sets, trade, fault) ==
    LET recentKey == trade.kolWallet
        added == zadd(sets[recentKey], trade.timestamp, IdMember(trade))
        trimmed == zremrangebyrank(added, 0, perKolStop)
        globalAdded == zadd(sets[GlobalKey], trade.timestamp, JSONstringify(trade))
        globalTrimmed == zremrangebyrank(globalAdded, 0, globalStop)
    IN  CASE fault = "setex" -> sets
          [] fault = "zremrangebyrank" -> [sets EXCEPT ![recentKey] = added]
          [] fault = "global zremrangebyrank" ->
                 [sets EXCEPT ![recentKey] = trimmed, ![GlobalKey] = globalAdded]
          [] OTHER -> [sets EXCEPT ![recentKey] = trimmed, ![GlobalKey] = globalTrimmed]

\* the entries written to a key and no longer in it
Dropped(before, after, dropped) == (dropped \cup Members(before)) \ Members(after)

\* the number of members a ZREMRANGEBYRANK 0 stop leaves at most
Cap(stop) == (0 - stop) - 1

\* The trades stored before the model starts, oldest first: perKol trades of K1
\* and then others trades of KOLs outside KOLs; number i has id i and event
\* time i.
EarlierTrade(i, perKol) ==
    [id |-> i, kolWallet |-> IF i <= perKol THEN "K1" ELSE "other", timestamp |-> i]

\* the sorted sets these trades have left (none of them over its cap)
EarlierSets(perKol, others) ==
    [key \in RecentKeys |->
        CASE key = "K1" ->
                 [i \in 1 .. perKol |-> Entry(i, IdMember(EarlierTrade(i, perKol)))]
          [] key = GlobalKey ->
                 [i \in 1 .. perKol + others |->
                     Entry(i, JSONstringify(EarlierTrade(i, perKol)))]
          [] OTHER -> <<>>]

\* how many trades of K1 and of other KOLs have been stored before: none, or
\* as many as leave the sets one below their caps, or at their caps
EarlierCounts ==
    {<<0, 0>>,
     <<Cap(perKolStop) - 1, Cap(globalStop) - Cap(perKolStop)>>,
     <<Cap(perKolStop), Cap(globalStop) - Cap(perKolStop)>>}

\* id: uuidv4(), here a number above every earlier id
NewId(n) == Cap(globalStop) + 1 + n

\* trade.timestamp.getTime(): before every earlier trade, that of the oldest
\* earlier trade, after every earlier trade
EventTimes == {0, 1, Cap(globalStop) + 1}

NoStore == [trade |-> <<>>, fault |-> "none"]
NoHistory ==
    [sets |-> [key \in RecentKeys |-> <<>>],
     dropped |-> [key \in RecentKeys |-> {}],
     stores |-> 0,
     last |-> NoStore]

\* await this.cacheService.storeKOLTrade(kolTrade)
CallStoreKOLTrade(trade, fault) ==
    /\ recent.stores < MaxStores
    /\ LET after == storeKOLTrade(recent.sets, trade, fault)
       IN  recent' =
               [sets |-> after,
                dropped |-> [key \in RecentKeys |->
                                IF after[key] = recent.sets[key]
                                THEN recent.dropped[key]
                                ELSE Dropped(recent.sets[key], after[key],
                                             recent.dropped[key])],
                stores |-> recent.stores + 1,
                last |-> [trade |-> trade, fault |-> fault]]

\* processTransaction stores the trade it has parsed
StoreParsedTrade(kolWallet, timestamp, fault) ==
    CallStoreKOLTrade([id |-> NewId(recent.stores), kolWallet |-> kolWallet,
                       timestamp |-> timestamp], fault)

\* the kolTrade listener stores the emitted trade once more
StoreEmittedTrade(fault) ==
    /\ recent.last.trade # <<>>
    /\ CallStoreKOLTrade(recent.last.trade, fault)

----------------------------------------------------------------------------
(* MessageProcessor: handleIncomingMessage and retryMessage *)

\* config.processing
retryAttempts == 3
retryDelayMs == 1000

MaxTicks == 7       \* clock ticks of retryDelayMs in one run

MsgIds == {"m1", "m2"}

\* the exchange and routing key a command arrives on
Routes == {[exchange |-> "commands", routingKey |-> "subscription.create"],
           [exchange |-> "commands", routingKey |-> "kol.add"]}

\* the message types sent
MessageTypes == {"subscription_create", "service_ping"}

\* the bodies sent: of a message type, or one JSON.parse rejects
BodyKinds == MessageTypes \cup {Unparseable}
JSONparseThrows(content) == content.type = Unparseable

\* this.handlers, in registration order (a Map iterates in insertion order);
\* both handlers take subscription_create, none takes service_ping
Handlers == <<[name |-> "h1", types |-> {"subscription_create"}],
              [name |-> "h2", types |-> {"subscription_create"}]>>
canHandle(handler, message) == message.type \in handler.types

\* the handlers whose canHandle returns true, in registration order
Matching(message) ==
    SelectSeq(Handlers, LAMBDA handler : canHandle(handler, message))

\* for (const handler of this.handlers.values()) { if (canHandle) {...; break} }:
\* the handlers whose handle() is called for one message
invokedHandlers_all(message) == Matching(message)
invokedHandlers(message) ==
    IF Matching(message) = <<>> THEN <<>> ELSE <<Head(Matching(message))>>

\* RabbitMQMessage (timestamp and priority are not modelled)
Message(id, type, retryCount) ==
    [id |-> id, type |-> type, payload |-> <<"payload of", id>>, retryCount |-> retryCount]

\* amqp.Message: the content and fields.exchange, fields.routingKey
Delivery(message, exchange, routingKey) ==
    [message |-> message, exchange |-> exchange, routingKey |-> routingKey]

\* if (message.retryCount < config.processing.retryAttempts)
shouldRetry_oneLess(retryCount) == retryCount + 1 < retryAttempts
shouldRetry(retryCount) == retryCount < retryAttempts

\* config.processing.retryDelayMs * Math.pow(2, message.retryCount)
retryDelay_linear(retryCount) == retryDelayMs * (retryCount + 1)
retryDelay(retryCount) == retryDelayMs * (2 ^ retryCount)

\* const retryMessage = {...message, retryCount: message.retryCount + 1, ...}
retryCopy(message) == [message EXCEPT !.retryCount = @ + 1]

\* what the processor has done with the deliveries of one message id: the
\* handler invocations, the retry counts the handler failed at, the retry
\* copies published, the acks and the nacks (requeue = false)
NoTally == [arrived |-> FALSE, invoked |-> 0, failures |-> {}, publishes |-> <<>>,
            acks |-> 0, nacks |-> 0, settled |-> <<>>]

\* setTimeout(callback, delay): what the callback holds, when it was set and
\* the delivery it was set for
Timer(original, setAt) ==
    [due |-> setAt + retryDelay(original.message.retryCount),
     message |-> retryCopy(original.message),
     exchange |-> original.exchange, routingKey |-> original.routingKey,
     original |-> original, setAt |-> setAt]

\* what handling one delivery does: the handlers called, whether the handler
\* threw, the timers set, the acks and the nacks (requeue = false) given
Handling(invoked, failed, timersSet, acks, nacks) ==
    [invoked |-> invoked, failed |-> failed, timers |-> timersSet,
     acks |-> acks, nacks |-> nacks]

\* retryMessage(message, originalMsg, error): setTimeout, then ack of the
\* original delivery
retryMessage_ackAndNack(d, invoked, at) == Handling(invoked, TRUE, {Timer(d, at)}, 1, 1)
retryMessage(d, invoked, at) == Handling(invoked, TRUE, {Timer(d, at)}, 1, 0)

\* handleIncomingMessage(msg): unparseable -> nack; no handler -> ack; handler
\* returns -> ack; handler throws -> retryMessage or nack
handlingOf(d, handlerOk, at) ==
    IF JSONparseThrows(d.message) THEN Handling(<<>>, FALSE, {}, 0, 1)
    ELSE IF invokedHandlers(d.message) = <<>> THEN Handling(<<>>, FALSE, {}, 1, 0)
    ELSE IF handlerOk THEN Handling(invokedHandlers(d.message), FALSE, {}, 1, 0)
    ELSE IF shouldRetry(d.message.retryCount)
    THEN retryMessage(d, invokedHandlers(d.message), at)
    ELSE Handling(invokedHandlers(d.message), TRUE, {}, 0, 1)

\* the tally of a message id after one of its deliveries was handled
Tallied(t, d, h) ==
    [t EXCEPT !.invoked = @ + Len(h.invoked),
              !.failures = IF h.failed THEN @ \cup {d.message.retryCount} ELSE @,
              !.acks = @ + h.acks,
              !.nacks = @ + h.nacks,
              !.settled = Append(@, [retryCount |-> d.message.retryCount,
                                     type |-> d.message.type,
                                     invoked |-> h.invoked,
                                     retried |-> h.timers # {},
                                     acks |-> h.acks, nacks |-> h.nacks])]

\* A producer publishes a command (retryCount: 0) and the bus delivers it.
Arrive(id, type, route) ==
    /\ ~tally[id].arrived
    /\ inbox' = inbox \cup {Delivery(Message(id, type, 0), route.exchange, route.routingKey)}
    /\ tally' = [tally EXCEPT ![id].arrived = TRUE]
    /\ UNCHANGED <<timers, now, chan>>

\* The consume callback: handleIncomingMessage(msg, queueName) from its first
\* statement to its last.
handleIncomingMessage(d, handlerOk) ==
    /\ chan = "open"
    /\ d \in inbox
    /\ inbox' = inbox \ {d}
    /\ timers' = timers \cup handlingOf(d, handlerOk, now).timers
    /\ tally' = [tally EXCEPT ![d.message.id] =
                      Tallied(@, d, handlingOf(d, handlerOk, now))]
    /\ UNCHANGED <<now, chan>>

\* The setTimeout callback of retryMessage runs: channel.publish(exchange,
\* routingKey, retryMessage), and the bus delivers the copy.
FireRetry(t) ==
    /\ chan = "open"
    /\ t \in timers
    /\ t.due <= now
    /\ timers' = timers \ {t}
    /\ inbox' = inbox \cup {Delivery(t.message, t.exchange, t.routingKey)}
    /\ tally' = [tally EXCEPT ![t.message.id].publishes =
                      Append(@, [message |-> t.message, exchange |-> t.exchange,
                                 routingKey |-> t.routingKey, at |-> now,
                                 original |-> t.original, setAt |-> t.setAt])]
    /\ UNCHANGED <<now, chan>>

\* Time passes while a timer is pending.
Tick ==
    /\ timers # {}
    /\ now < MaxTicks * retryDelayMs
    /\ now' = now + retryDelayMs
    /\ UNCHANGED <<inbox, timers, tally, chan>>

\* The connection closes ('close' event): the channel the processor holds is
\* closed; the deliveries not yet handled stay with the broker.
CloseChannel ==
    /\ chan = "open"
    /\ chan' = "closed"
    /\ UNCHANGED <<inbox, timers, now, tally>>

\* attemptReconnection: connect() sets this.channel to a new channel and
\* startConsumers() consumes again.
Reconnect ==
    /\ chan = "closed"
    /\ chan' = "open"
    /\ UNCHANGED <<inbox, timers, now, tally>>

\* The setTimeout callback of retryMessage runs while the channel is closed:
\* channel.publish throws, the catch block logs 'Failed to retry message',
\* and the callback is over.
FireRetryClosed(t) ==
    /\ chan = "closed"
    /\ t \in timers
    /\ t.due <= now
    /\ timers' = timers \ {t}
    /\ UNCHANGED <<inbox, now, tally, chan>>

\* Time passes up to the next timer that is not yet due.
TickDue ==
    /\ \E t \in timers : now < t.due
    /\ now' = now + retryDelayMs
    /\ UNCHANGED <<inbox, timers, tally, chan>>

----------------------------------------------------------------------------
(* MessageProcessor: connect and attemptReconnection *)

\* private maxReconnectAttempts = 10
maxReconnectAttempts == 10

MaxPending == 2     \* reconnect timers pending at one time
MaxLive == 3        \* connections open at one time

Min(a, b) == IF a < b THEN a ELSE b

\* Math.min(1000 * Math.pow(2, this.reconnectAttempts), 30000)
reconnectDelay(reconnectAttempts) == Min(1000 * (2 ^ reconnectAttempts), 30000)

\* the processor after start(): connected, no reconnect under way.  streak
\* counts the attempts scheduled, failedRun the attempts that ran and failed,
\* since the last successful reconnect; lastEvent is the last thing that
\* happened to the connection.  connections counts the connections that
\* connect() opened and that are still open, current tells whether
\* this.connection is one of them, afterStop whether a setTimeout callback ran
\* after stop().
Started ==
    [isConnected |-> TRUE, reconnectAttempts |-> 0, pending |-> <<>>,
     exited |-> FALSE, streak |-> 0, failedRun |-> 0, lastEvent |-> "started",
     isShuttingDown |-> FALSE, connections |-> 1, current |-> TRUE,
     afterStop |-> FALSE]

\* setTimeout(callback, delay) of attemptReconnection: the time left until it
\* runs, the delay it was set with and the streak it was set at
ReconnectTimer(delay, streak) == [remaining |-> delay, delay |-> delay, streak |-> streak]

\* attemptReconnection(): process.exit(1) at maxReconnectAttempts, else the
\* delay is computed, reconnectAttempts++ and the timer is set
attemptReconnection(c) ==
    IF c.exited THEN c
    ELSE IF c.reconnectAttempts >= maxReconnectAttempts
    THEN [c EXCEPT !.exited = TRUE, !.pending = <<>>]
    ELSE [c EXCEPT !.pending = Append(@, ReconnectTimer(reconnectDelay(c.reconnectAttempts),
                                                      c.streak)),
                   !.reconnectAttempts = @ + 1,
                   !.streak = @ + 1]

\* connect(), the createChannel callback: this.connection is the new
\* connection (the one it held is not closed), isConnected = true,
\* reconnectAttempts = 0
connected(c) ==
    [c EXCEPT !.isConnected = TRUE, !.reconnectAttempts = 0,
              !.connections = @ + 1, !.current = TRUE]

\* the listeners connect() sets: 'error' calls handleConnectionError, 'close'
\* calls handleConnectionClose unless isShuttingDown; both handlers set
\* isConnected = false and call attemptReconnection unless isShuttingDown
handleConnectionEvent(c, event) ==
    IF ~c.isShuttingDown THEN attemptReconnection([c EXCEPT !.isConnected = FALSE])
    ELSE IF event = "error" THEN [c EXCEPT !.isConnected = FALSE]
    ELSE c

\* stop(): isShuttingDown = true, this.channel and this.connection are
\* closed, isConnected = false; the timers attemptReconnection set are left
stop(c) ==
    [c EXCEPT !.isShuttingDown = TRUE,
              !.isConnected = FALSE,
              !.connections = IF c.current THEN @ - 1 ELSE @,
              !.current = FALSE]

\* the events the connection emits when it goes down: 'close' alone, or
\* 'error' followed by 'close'
DisconnectEvents == {<<"close">>, <<"error", "close">>}

RECURSIVE handleEvents(_, _)
handleEvents(c, events) ==
    IF events = <<>> THEN c
    ELSE handleEvents(handleConnectionEvent(c, Head(events)), Tail(events))

\* the timers left when timer i runs: the time it waited has passed for each
AfterFiring(pending, i) ==
    [j \in 1 .. Len(pending) - 1 |->
        LET t == pending[IF j < i THEN j ELSE j + 1]
        IN  [t EXCEPT !.remaining = @ - pending[i].remaining]]

\* what the try block of the setTimeout callback comes to: connect() fails,
\* connect() succeeds and setupExchangesAndQueues() or startConsumers()
\* throws, or all three succeed
AttemptOutcomes == {"connectFails", "setupFails", "reconnected"}

\* the setTimeout callback of attemptReconnection, c being the processor
\* with the timer taken off
reconnectCallback(c, outcome) ==
    IF outcome = "reconnected"
    THEN [connected(c) EXCEPT !.streak = 0, !.failedRun = 0]
    ELSE IF outcome = "setupFails"
    THEN attemptReconnection([connected(c) EXCEPT !.failedRun = @ + 1])
    ELSE attemptReconnection([c EXCEPT !.failedRun = @ + 1])

\* The connection goes down and emits its events.
Disconnect(events) ==
    /\ ~conn.exited
    /\ conn.current
    /\ Len(conn.pending) + Len(events) <= MaxPending
    /\ conn' = handleEvents([conn EXCEPT !.lastEvent = "disconnect",
                                         !.connections = @ - 1,
                                         !.current = FALSE],
                            events)

\* a call of stop()
Stop ==
    /\ ~conn.exited
    /\ ~conn.isShuttingDown
    /\ conn' = stop([conn EXCEPT !.lastEvent = "stopped"])

\* The reconnect timer with the least time left runs.
RunAttempt(i, outcome) ==
    /\ ~conn.exited
    /\ conn.failedRun <= maxReconnectAttempts
    /\ i \in 1 .. Len(conn.pending)
    /\ \A j \in 1 .. Len(conn.pending) : conn.pending[i].remaining <= conn.pending[j].remaining
    /\ outcome # "connectFails" => conn.connections < MaxLive
    /\ conn' = reconnectCallback([conn EXCEPT !.pending = AfterFiring(conn.pending, i),
                                              !.lastEvent = outcome,
                                              !.afterStop = @ \/ conn.isShuttingDown],
                                 outcome)

----------------------------------------------------------------------------
(* POST /helius-webhook *)

NumRequests == 2    \* webhook requests whose processing may overlap
Requests == 1 .. NumRequests

\* the payloads the overlapping requests carry: one or two transactions of
\* the subscribed KOL K1, or one of K2, which is not active
WebhookPayloads ==
    {<<BuyTx("K1")>>, <<SellTx("K1")>>, <<BuyTx("K1"), SellTx("K1")>>, <<BuyTx("K2")>>}

\* res.status(200).json({success: true, message: 'Webhook received', ...})
Response(status) == [kind |-> "response", status |-> status, tx |-> 0, kol |-> Null]

\* A pipeline effect as a step of the handler: its kind, the position in the
\* payload of the transaction it is made for (the trade parsed of data[0] has
\* the id 0, the trade of the i-th transaction the id i) and the KOL wallet.
Effect(e) ==
    [kind |-> e.kind, status |-> 0,
     tx |-> IF e.trade.id = 0 THEN 1 ELSE e.trade.id, kol |-> e.trade.kolWallet]

Effects(emissions) == [i \in 1 .. Len(emissions) |-> Effect(emissions[i])]

\* the handler: the response, then service.processWebhookData(req.body)
HandlerSteps_respondLast(emissions) == Effects(emissions) \o <<Response(200)>>
HandlerSteps(emissions) == <<Response(200)>> \o Effects(emissions)

NoRequest == [data |-> <<>>, tokenInfoOk |-> TRUE, steps |-> <<>>, done |-> 0]

\* the registry the requests run against: U1 copies the trades of K1
WebhookRegistry ==
    subscribeToKOL(EmptyRegistry, {},
                   [userId |-> "U1", kolWallet |-> "K1", type |-> "trade",
                    tokenBuyCount |-> 0, watchConfig |-> FALSE,
                    copyPercentage |-> 50], "id1", TRUE)

\* The r-th POST /helius-webhook arrives: the handler runs up to its first
\* await, which takes the first of its steps; nothing of
\* processWebhookData is awaited.
PostWebhook(r, data, tokenInfoOk) ==
    /\ http[r] = NoRequest
    /\ \A q \in 1 .. r - 1 : http[q] # NoRequest
    /\ http' = [http EXCEPT ![r] =
                    [data |-> data, tokenInfoOk |-> tokenInfoOk,
                     steps |-> HandlerSteps(
                         CopyTradingService_processWebhookData(registry, data, tokenInfoOk)),
                     done |-> 1]]

\* processWebhookData of request r goes on to its next await: the next
\* store write, RPC call or publish is made.
TakeStep(r) ==
    /\ http[r].done < Len(http[r].steps)
    /\ http' = [http EXCEPT ![r].done = @ + 1]

----------------------------------------------------------------------------
(* Specifications: one per part of the service; the parts a specification *)
(* does not exercise stay in their idle state.                             *)

QuotaIdle ==
    /\ count = [k \in Keys |-> 0]
    /\ record = [k \in Keys |-> Absent]
    /\ limit = 1
    /\ call = [p \in Callers |-> idleCall]
    /\ ret = [p \in Callers |-> noRet]
    /\ succ = [k \in Keys |-> 0]
    /\ disturbed = [k \in Keys |-> FALSE]
    /\ ncalls = 0

ClassifierIdle ==
    /\ tx = EmptyTx
    /\ target = Undefined
    /\ parsed = NotParsed

RegistryIdle ==
    /\ registry = EmptyRegistry
    /\ provider = {}
    /\ hist = NoHist

DispatchIdle == out = <<>>

TrackerIdle == last = NoLast /\ trail = <<>>

BusIdle ==
    /\ inbox = {}
    /\ timers = {}
    /\ now = 0
    /\ tally = [id \in MsgIds |-> NoTally]
    /\ chan = "open"

HttpIdle == http = [r \in Requests |-> NoRequest]

ConnIdle == conn = Started

RaceIdle == race = NoRace

HistoryIdle == recent = NoHistory

LaterIdle == ConnIdle /\ RaceIdle /\ HistoryIdle

RestIdle == TrackerIdle /\ BusIdle /\ HttpIdle /\ LaterIdle

InitQuota ==
    /\ RestIdle
    /\ ClassifierIdle
    /\ RegistryIdle
    /\ DispatchIdle
    /\ count = [k \in Keys |-> 0]
    /\ record = [k \in Keys |-> Absent]
    /\ limit \in 1 .. MaxLimit
    /\ call = [p \in Callers |-> idleCall]
    /\ ret = [p \in Callers |-> noRet]
    /\ succ = [k \in Keys |-> 0]
    /\ disturbed = [k \in Keys |-> FALSE]
    /\ ncalls = 0

NextQuota ==
    \/ \E p \in Callers, key \in QuotaKeys : IavpCall(p, key) /\ QuotaOnly
    \/ \E p \in Callers : IavpExec(p) /\ QuotaOnly
    \/ \E p \in Callers : IavpRollback(p) /\ QuotaOnly
    \/ \E p \in Callers : IavpSetRecord(p) /\ QuotaOnly
    \/ \E key \in QuotaKeys : resetPurchaseCount(key) /\ QuotaOnly
    \/ \E key \in QuotaKeys : ExpireCountKey(key) /\ QuotaOnly
    \/ \E key \in QuotaKeys : ExpireRecordKey(key) /\ QuotaOnly

SpecQuota == InitQuota /\ [][NextQuota]_vars

InitClassifier == ClassifierIdle /\ QuotaIdle /\ RegistryIdle /\ DispatchIdle /\ RestIdle

NextClassifier ==
    \/ \E acc \in AccountEntries : AddAccount(acc) /\ ClassifierOnly
    \/ \E tbc \in TokenChanges : AddTokenChange(tbc) /\ ClassifierOnly
    \/ \E targetUser \in TargetUsers : CallParseSwap(targetUser) /\ ClassifierOnly

SpecClassifier == InitClassifier /\ [][NextClassifier]_vars

InitCache == RegistryIdle /\ QuotaIdle /\ ClassifierIdle /\ DispatchIdle /\ RestIdle

NextCache ==
    \/ \E subscription \in SubscriptionInputs, id \in SubIds :
           CallAddSubscription(subscription, id) /\ RegistryOnly
    \/ \E userId \in Users, kolWallet \in KOLs :
           CallRemoveSubscription(userId, kolWallet) /\ RegistryOnly
    \/ \E walletAddress \in KOLs : CallAddKOLWallet(walletAddress) /\ RegistryOnly
    \/ \E walletAddress \in KOLs : CallRemoveKOLWallet(walletAddress) /\ RegistryOnly
    \/ \E userId \in Users : ExpireUserSubscriptions(userId) /\ RegistryOnly

SpecCache == InitCache /\ [][NextCache]_vars

\* sequential addSubscription and removeSubscription calls, no key running out
InitSequential == RegistryIdle /\ QuotaIdle /\ ClassifierIdle /\ DispatchIdle /\ RestIdle

NextSequential ==
    \/ \E subscription \in SubscriptionInputs, id \in SubIds :
           CallAddSubscription(subscription, id) /\ RegistryOnly
    \/ \E userId \in Users, kolWallet \in KOLs :
           CallRemoveSubscription(userId, kolWallet) /\ RegistryOnly

SpecSequential == InitSequential /\ [][NextSequential]_vars

InitRpc == RegistryIdle /\ QuotaIdle /\ ClassifierIdle /\ DispatchIdle /\ RestIdle

NextRpc ==
    \/ \E subscription \in SubscriptionInputs, id \in SubIds, providerOk \in BOOLEAN :
           Rpc_createUserSubscription(subscription, id, providerOk) /\ RegistryOnly
    \/ \E userId \in Users, kolWallet \in KOLs, providerOk \in BOOLEAN :
           Rpc_removeUserSubscription(userId, kolWallet, providerOk) /\ RegistryOnly
    \/ \E kolWallets \in (SUBSET KOLs) \ {{}}, providerOk \in BOOLEAN :
           Rpc_addKolWalletToWebhook(kolWallets, providerOk) /\ RegistryOnly
    \/ \E kolWallet \in KOLs, providerOk \in BOOLEAN :
           Rpc_removeKolWalletFromWebhook(kolWallet, providerOk) /\ RegistryOnly

SpecRpc == InitRpc /\ [][NextRpc]_vars

InitDispatch == DispatchIdle /\ RegistryIdle /\ QuotaIdle /\ ClassifierIdle /\ RestIdle

NextDispatch ==
    \/ \E subscription \in SubscriptionInputs, providerOk \in BOOLEAN :
           Subscribe(subscription, "id1", providerOk)
    \/ \E userId \in Users, kolWallet \in KOLs, providerOk \in BOOLEAN :
           Unsubscribe(userId, kolWallet, providerOk)
    \/ \E key \in QuotaKeys : PurchaseCall(key)
    \/ \E data \in Payloads, tokenInfoOk \in BOOLEAN : PostHeliusWebhook(data, tokenInfoOk)
    \/ \E data \in Payloads, failAt \in PublishFaults :
           PostHeliusWebhookPublishThrows(data, failAt)
    \/ TakeEmissions

SpecDispatch == InitDispatch /\ [][NextDispatch]_vars

InitProvider ==
    RegistryIdle /\ QuotaIdle /\ ClassifierIdle /\ DispatchIdle /\ RestIdle

NextProvider ==
    \/ \E subscription \in SubscriptionInputs, providerOk \in BOOLEAN :
           CallSubscribeToKOL(subscription, "id1", providerOk) /\ ProviderOnly
    \/ \E userId \in Users, kolWallet \in KOLs, providerOk \in BOOLEAN :
           CallUnsubscribeFromKOL(userId, kolWallet, providerOk) /\ ProviderOnly
    \/ \E userId \in Users : ExpireSubscriptionsKey(userId) /\ ProviderOnly
    \/ \E providerOk \in BOOLEAN : CallSyncWallets(providerOk) /\ ProviderOnly

SpecProvider == InitProvider /\ [][NextProvider]_vars

InitFaults ==
    RegistryIdle /\ QuotaIdle /\ ClassifierIdle /\ DispatchIdle /\ RestIdle

NextFaults ==
    \/ \E subscription \in FaultSubscriptions, fault \in AddFaults :
           CallAddSubscriptionFaulty(subscription, "id1", fault) /\ ProviderOnly
    \/ \E userId \in Users, kolWallet \in KOLs, fault \in RemoveFaults :
           CallRemoveSubscriptionFaulty(userId, kolWallet, fault) /\ ProviderOnly
    \/ \E request \in RpcRequests, fault \in AddFaults \cup RemoveFaults,
           providerOk \in BOOLEAN :
           RpcConsume(request, "id1", fault, providerOk) /\ ProviderOnly
    \/ TakeResult /\ ProviderOnly

SpecFaults == InitFaults /\ [][NextFaults]_vars

InitBus ==
    BusIdle /\ TrackerIdle /\ HttpIdle /\ LaterIdle
    /\ RegistryIdle /\ QuotaIdle /\ ClassifierIdle /\ DispatchIdle

NextBus ==
    \/ \E id \in MsgIds, type \in BodyKinds, route \in Routes :
           Arrive(id, type, route) /\ BusOnly
    \/ \E d \in inbox, handlerOk \in BOOLEAN :
           handleIncomingMessage(d, handlerOk) /\ BusOnly
    \/ \E t \in timers : FireRetry(t) /\ BusOnly
    \/ Tick /\ BusOnly

\* The commands (on one route), their retries, and the connection closing
\* and reopening.
InitBusClose == InitBus

HandleAny == \E d \in inbox, handlerOk \in BOOLEAN : handleIncomingMessage(d, handlerOk) /\ BusOnly
FireAny == \E t \in timers : (FireRetry(t) \/ FireRetryClosed(t)) /\ BusOnly

NextBusClose ==
    \/ \E id \in MsgIds, type \in BodyKinds :
           Arrive(id, type, CHOOSE route \in Routes : TRUE) /\ BusOnly
    \/ \E d \in inbox, handlerOk \in BOOLEAN :
           handleIncomingMessage(d, handlerOk) /\ BusOnly
    \/ \E t \in timers : FireRetry(t) /\ BusOnly
    \/ \E t \in timers : FireRetryClosed(t) /\ BusOnly
    \/ TickDue /\ BusOnly
    \/ CloseChannel /\ BusOnly
    \/ Reconnect /\ BusOnly

\* A setTimeout callback runs once it is due, time passes, the processor
\* reconnects, and a delivery waiting at the broker is consumed once the
\* channel is open often enough.
SpecBusClose ==
    /\ InitBusClose
    /\ [][NextBusClose]_vars
    /\ WF_vars(FireAny)
    /\ WF_vars(TickDue /\ BusOnly)
    /\ WF_vars(Reconnect /\ BusOnly)
    /\ SF_vars(HandleAny)

InitReconnect ==
    /\ LaterIdle
    /\ BusIdle /\ TrackerIdle /\ HttpIdle
    /\ RegistryIdle /\ QuotaIdle /\ ClassifierIdle /\ DispatchIdle

NextReconnect ==
    \/ \E events \in DisconnectEvents : Disconnect(events) /\ ConnOnly
    \/ \E i \in 1 .. Len(conn.pending), outcome \in AttemptOutcomes :
           RunAttempt(i, outcome) /\ ConnOnly
    \/ Stop /\ ConnOnly

SpecReconnect == InitReconnect /\ [][NextReconnect]_vars

InitRace ==
    /\ registry \in RaceStarts
    /\ race = [NoRace EXCEPT !.start = registry]
    /\ provider = {} /\ hist = NoHist
    /\ ConnIdle /\ HistoryIdle
    /\ BusIdle /\ TrackerIdle /\ HttpIdle
    /\ QuotaIdle /\ ClassifierIdle /\ DispatchIdle

NextRace ==
    \/ \E r \in Racers, c \in RaceCalls : RaceCall(r, c) /\ RaceOnly
    \/ \E r \in Racers : RaceGet(r) /\ RaceOnly
    \/ \E r \in Racers : RaceWrite(r) /\ RaceOnly
    \/ \E r \in Racers : RaceSadd(r) /\ RaceOnly
    \/ \E r \in Racers : RaceSrem(r) /\ RaceOnly
    \/ \E r \in Racers : RaceScard(r) /\ RaceOnly

SpecRace == InitRace /\ [][NextRace]_vars

InitHistory ==
    /\ \E counts \in EarlierCounts :
           recent = [NoHistory EXCEPT !.sets = EarlierSets(counts[1], counts[2])]
    /\ ConnIdle /\ RaceIdle
    /\ BusIdle /\ TrackerIdle /\ HttpIdle
    /\ RegistryIdle /\ QuotaIdle /\ ClassifierIdle /\ DispatchIdle

NextHistory ==
    \/ \E kolWallet \in KOLs, timestamp \in EventTimes, fault \in StoreFaults :
           StoreParsedTrade(kolWallet, timestamp, fault) /\ HistoryOnly
    \/ \E fault \in StoreFaults : StoreEmittedTrade(fault) /\ HistoryOnly

SpecHistory == InitHistory /\ [][NextHistory]_vars

InitTracker ==
    /\ TrackerIdle /\ BusIdle /\ HttpIdle /\ LaterIdle
    /\ ClassifierIdle /\ RegistryIdle /\ DispatchIdle
    /\ count = [k \in Keys |-> 0]
    /\ record = [k \in Keys |-> Absent]
    /\ limit \in 1 .. MaxLimit
    /\ call = [p \in Callers |-> idleCall]
    /\ ret = [p \in Callers |-> noRet]
    /\ succ = [k \in Keys |-> 0]
    /\ disturbed = [k \in Keys |-> FALSE]
    /\ ncalls = 0

NextTracker ==
    \/ \E key \in QuotaKeys, fault \in CanPurchaseFaults :
           CallCanPurchase(key, fault) /\ TrackerOnly
    \/ \E key \in QuotaKeys, fault \in IncrementFaults, applied \in BOOLEAN :
           CallIncrement(key, fault, applied) /\ TrackerOnly
    \/ \E key \in QuotaKeys : CallReset(key) /\ TrackerOnly

SpecTracker == InitTracker /\ [][NextTracker]_vars

SpecBus == InitBus /\ [][NextBus]_vars

InitWebhook ==
    /\ registry = WebhookRegistry.registry
    /\ provider = WebhookRegistry.provider
    /\ hist = NoHist
    /\ HttpIdle /\ TrackerIdle /\ BusIdle /\ LaterIdle
    /\ QuotaIdle /\ ClassifierIdle /\ DispatchIdle

NextWebhook ==
    \/ \E r \in Requests, data \in WebhookPayloads, tokenInfoOk \in BOOLEAN :
           PostWebhook(r, data, tokenInfoOk) /\ HttpOnly
    \/ \E r \in Requests : TakeStep(r) /\ HttpOnly

SpecWebhook == InitWebhook /\ [][NextWebhook]_vars

----------------------------------------------------------------------------
(* Claims about the quota gate *)

InFlight(key) == {p \in Callers : call[p].pc # "idle" /\ call[p].key = key}

PendingRollback(key) ==
    {p \in Callers : /\ call[p].pc = "checked"
                     /\ call[p].key = key
                     /\ call[p].newCount > limit}

\* C1: for a fixed (userId, tokenMint) and a fixed maxCount N, with no reset and
\* no key expiry in between, at most N of the calls of any interleaving of
\* concurrent incrementAndValidatePurchase calls return success = true.
C1_AtMostNSucceed ==
    \A key \in Keys : ~disturbed[key] => succ[key] <= limit

\* C1 witness: N calls have succeeded on an undisturbed key and a further call
\* on that key has been rejected at the limit.
C1_Witness ==
    \E key \in Keys, p \in Callers :
        /\ ~disturbed[key]
        /\ succ[key] = limit
        /\ ret[p].key = key
        /\ ret[p].wasAtLimit
        /\ ~ret[p].success

C28_CounterNeverNegative ==
    \A key \in Keys : count[key] >= 0

\* C37: whenever no incrementAndValidatePurchase or resetPurchaseCount call is
\* in flight and the counter for (userId, tokenMint) is greater than 0, a
\* purchase record for that pair exists and its currentCount equals the
\* counter, for every interleaving of concurrent successful increments and of
\* key expiry.
C37_RecordMatchesCounter ==
    \A key \in Keys :
        InFlight(key) = {} /\ count[key] > 0 =>
            /\ record[key] # Absent
            /\ record[key][1].currentCount = count[key]

----------------------------------------------------------------------------
(* Claims about the classifier *)

\* the (account index, change index) positions of the payload's token balance changes
ChangePositions(accs) ==
    UNION {{<<i, j>> : j \in 1 .. Len(accs[i].tokenBalanceChanges)} : i \in 1 .. Len(accs)}

SignedAmount(raw) ==
    IF raw.neg THEN 0 - (raw.digits \div (10 ^ raw.decimals))
               ELSE raw.digits \div (10 ^ raw.decimals)

RECURSIVE SumTokenDeltas(_, _)
SumTokenDeltas(accs, positions) ==
    IF positions = {} THEN 0
    ELSE LET q == CHOOSE q \in positions : TRUE
         IN  SignedAmount(accs[q[1]].tokenBalanceChanges[q[2]].rawTokenAmount)
             + SumTokenDeltas(accs, positions \ {q})

RECURSIVE SumNativeDeltas(_, _)
SumNativeDeltas(accs, indices) ==
    IF indices = {} THEN 0
    ELSE LET i == CHOOSE i \in indices : TRUE
         IN  (accs[i].nativeBalanceChange \div LAMPORTS_PER_SOL)
             + SumNativeDeltas(accs, indices \ {i})

\* net delta of one mint for one user: the user's token balance changes of that
\* mint, and for the native mint also the lamport changes of the user's account
NetDelta(accs, user, mint) ==
    SumTokenDeltas(accs, {q \in ChangePositions(accs) :
                             /\ accs[q[1]].tokenBalanceChanges[q[2]].userAccount = user
                             /\ accs[q[1]].tokenBalanceChanges[q[2]].mint = mint})
    + (IF mint = SOL_MINT
       THEN SumNativeDeltas(accs, {i \in 1 .. Len(accs) : accs[i].account = user})
       ELSE 0)

\* the non-native mints the user has a balance change of
NonNativeMints(accs, user) ==
    {accs[q[1]].tokenBalanceChanges[q[2]].mint :
        q \in {r \in ChangePositions(accs) :
                  /\ accs[r[1]].tokenBalanceChanges[r[2]].userAccount = user
                  /\ accs[r[1]].tokenBalanceChanges[r[2]].mint # SOL_MINT}}

\* the user parseSwap analyses: targetUser, or the first user of the payload
AnalysedUser == UserToCheck(UserChanges(tx.accountData), target)

IsBuy(accs, user) ==
    /\ NetDelta(accs, user, SOL_MINT) < 0
    /\ Cardinality(NonNativeMints(accs, user)) = 1
    /\ \A mint \in NonNativeMints(accs, user) : NetDelta(accs, user, mint) > 0

IsSell(accs, user) ==
    /\ NetDelta(accs, user, SOL_MINT) > 0
    /\ Cardinality(NonNativeMints(accs, user)) = 1
    /\ \A mint \in NonNativeMints(accs, user) : NetDelta(accs, user, mint) < 0

ExpectBuy == IsBuy(tx.accountData, AnalysedUser)
ExpectSell == IsSell(tx.accountData, AnalysedUser)

\* C7: parseSwap returns buy exactly when the analysed user's net native delta
\* is < 0 and the user has exactly one non-native mint, of net delta > 0; sell
\* exactly when the native delta is > 0 and the single non-native delta is < 0;
\* in both cases tokenMint is that mint, tokenAmount = |token delta| and
\* solAmount = |native delta|; in every other case the result is neither buy
\* nor sell.
C7_ClassifiesExactly ==
    parsed # NotParsed =>
        /\ (parsed[1].side = "buy") <=> ExpectBuy
        /\ (parsed[1].side = "sell") <=> ExpectSell
        /\ parsed[1].side \in {"buy", "sell"} =>
               /\ NonNativeMints(tx.accountData, AnalysedUser) = {parsed[1].tokenMint}
               /\ parsed[1].tokenAmount =
                      Abs(NetDelta(tx.accountData, AnalysedUser, parsed[1].tokenMint))
               /\ parsed[1].solAmount =
                      Abs(NetDelta(tx.accountData, AnalysedUser, SOL_MINT))
        /\ ~(ExpectBuy \/ ExpectSell) => parsed[1].side \in {"unknown", Undefined}

\* C7 witness: a sell is returned for the first user of a payload whose native
\* delta is made of a lamport change and a wrapped-SOL token change.
C7_Witness ==
    /\ parsed # NotParsed
    /\ target = Undefined
    /\ parsed[1].side = "sell"
    /\ parsed[1].solAmount = 2
    /\ parsed[1].tokenAmount = 1

\* the positions of the accountData entries that have a non-zero native change
\* or a non-zero token change
ChangedPositions(accs) ==
    {i \in 1 .. Len(accs) :
        \/ accs[i].nativeBalanceChange # 0
        \/ \E j \in 1 .. Len(accs[i].tokenBalanceChanges) :
               toHuman(accs[i].tokenBalanceChanges[j].rawTokenAmount,
                       accs[i].tokenBalanceChanges[j].rawTokenAmount.decimals) # 0}

\* the first account, in the payload's account order, with a non-zero change
FirstChangedAccount(accs) ==
    IF ChangedPositions(accs) = {} THEN Undefined
    ELSE accs[CHOOSE i \in ChangedPositions(accs) :
                  \A j \in ChangedPositions(accs) : i <= j].account

\* C33: parseSwap analyses the explicit targetUser whenever one is supplied;
\* when none is supplied it analyses the first account, in the payload's
\* account order, that has a non-zero native or token change: what it returns
\* is the classification of that account's changes.
C33_AnalysesFirstChanged ==
    parsed # NotParsed =>
        parsed[1] = SwapOfUser(UserChanges(tx.accountData),
                               IF target # Undefined THEN target
                               ELSE FirstChangedAccount(tx.accountData))

----------------------------------------------------------------------------
(* Claims about the registry *)

\* C3: in every state reachable through the RPC methods createUserSubscription,
\* removeUserSubscription, addKolWalletToWebhook and removeKolWalletFromWebhook
\* (provider calls may fail), a KOL wallet is in the active set if and only if
\* its subscriber set is non-empty.
C3_ActiveIffSubscribed ==
    \A kolWallet \in KOLs :
        kolWallet \in registry.active <=> registry.subscribers[kolWallet] # {}

\* the positions of a user's list that hold a subscription to kolWallet
PositionsOf(userId, kolWallet) ==
    {i \in 1 .. Len(registry.subs[userId]) :
        registry.subs[userId][i].kolWallet = kolWallet}

\* C9: each user's stored list holds at most one subscription per kolWallet;
\* after addSubscription(s') (in particular after addSubscription(s) followed
\* by addSubscription(s') for the same pair) the list holds exactly one
\* subscription for the pair, and its fields other than id equal those of s'.
C9_OnePerKolLastWins ==
    /\ \A userId \in Users, kolWallet \in KOLs :
           Cardinality(PositionsOf(userId, kolWallet)) <= 1
    /\ hist.op = "addSubscription" =>
           /\ Cardinality(PositionsOf(hist.userId, hist.kolWallet)) = 1
           /\ \A i \in PositionsOf(hist.userId, hist.kolWallet) :
                  InputOf(registry.subs[hist.userId][i]) = hist.sub[1]

\* C9 witness: addSubscription(s) was followed by addSubscription(s') for the
\* same pair with other fields, in a list that holds another subscription too.
C9_Witness ==
    /\ hist.op = "addSubscription"
    /\ hist.afterAdd
    /\ hist.prev # hist.sub
    /\ Len(registry.subs[hist.userId]) = 2

\* C10: when addSubscription for a pair that had no subscription is followed by
\* removeSubscription for that pair, the user's other subscriptions, every
\* subscriber set and the active set are what they were before the two calls.
C10_AddRemoveIsNoOp ==
    (hist.op = "removeSubscription" /\ hist.afterAdd /\ hist.pre # <<>>) =>
        /\ registry.subs[hist.userId] = hist.pre[1].subs[hist.userId]
        /\ registry.subscribers = hist.pre[1].subscribers
        /\ registry.active = hist.pre[1].active

\* C31: with config.cache.ttl.subscriptions = 0 a stored list never runs out,
\* so every user in a KOL's subscriber set still has the stored subscription
\* for that KOL.
C31_SubscriberHasSubscription ==
    ttlSubscriptions = 0 =>
        \A kolWallet \in KOLs : \A userId \in registry.subscribers[kolWallet] :
            HasSubscription(registry, userId, kolWallet)

\* the stored subscriptions, of every user, whose kolWallet is the given one
StoredForKOL(kolWallet) ==
    UNION {{registry.subs[userId][i] : i \in PositionsOf(userId, kolWallet)} :
              userId \in Users}

\* C39: after any sequence of addSubscription and removeSubscription calls
\* (no store failure, no key running out) a user is in the subscriber set of a
\* KOL exactly when the user's list holds a subscription for that KOL, and
\* getSubscriptionsForKOL returns exactly the stored subscriptions of that KOL.
C39_SubscribersMatchLists ==
    \A kolWallet \in KOLs :
        /\ \A userId \in Users :
               userId \in registry.subscribers[kolWallet]
                   <=> HasSubscription(registry, userId, kolWallet)
        /\ getSubscriptionsForKOL(registry, kolWallet) = StoredForKOL(kolWallet)

\* C39 witness: a removeSubscription that followed the addSubscription of the
\* same pair took the user out of a KOL's set of two, and the remaining
\* subscriber's subscription is what the query returns.
C39_Witness ==
    /\ hist.op = "removeSubscription"
    /\ hist.afterAdd
    /\ hist.userId \notin registry.subscribers[hist.kolWallet]
    /\ Cardinality(registry.subscribers[hist.kolWallet]) = 1
    /\ Cardinality(getSubscriptionsForKOL(registry, hist.kolWallet)) = 1


\* the emissions of one kind of the last delivery, in the order they were made
EmissionsOf(kind) == SelectSeq(out[1].emissions, LAMBDA e : e.kind = kind)

\* the KOL wallet of the delivery's first transaction: the first scanned
\* address that is in the active set
DeliveredKol == findWalletAddress(registry, out[1].data[1])

\* The last delivery was one swap transaction of an active KOL that is a buy
\* or a sell of that KOL, and the token metadata lookup succeeded.
OneClassifiedTrade ==
    /\ out # <<>>
    /\ Len(out[1].data) = 1
    /\ out[1].tokenInfoOk
    /\ isSwapTransaction(out[1].data[1])
    /\ DeliveredKol # Null
    /\ \/ IsBuy(out[1].data[1].accountData, DeliveredKol)
       \/ IsSell(out[1].data[1].accountData, DeliveredKol)

\* the token mint of the classified trade
DeliveredMint ==
    CHOOSE mint \in NonNativeMints(out[1].data[1].accountData, DeliveredKol) : TRUE

\* S: the subscriptions of the trade's KOL
DeliveredSubscriptions == getSubscriptionsForKOL(registry, DeliveredKol)

Gated(sub) == sub.type = "trade" /\ sub.tokenBuyCount > 0 /\ sub.watchConfig

CountBefore(userId, mint) ==
    IF <<userId, mint>> \in DOMAIN out[1].countBefore
    THEN out[1].countBefore[<<userId, mint>>] ELSE 0

\* the trade-type subscriptions that are eligible for the copy-trade batch:
\* the ungated ones, and the gated ones whose count was below tokenBuyCount
EligibleSubscriptions ==
    {sub \in DeliveredSubscriptions :
        /\ sub.type = "trade"
        /\ Gated(sub) => CountBefore(sub.userId, DeliveredMint) < sub.tokenBuyCount}

\* the users that have an element in some copy-trade RPC call of the delivery
CopyTradeUsers ==
    UNION {{element.agentId : element \in EmissionsOf("performBatchTrades")[i].trades} :
              i \in 1 .. Len(EmissionsOf("performBatchTrades"))}

NotifiedTimes(userId) ==
    Cardinality({i \in 1 .. Len(EmissionsOf("client_notification")) :
                    EmissionsOf("client_notification")[i].userId = userId})

\* C4: for one classified trade of a KOL whose subscriptions are S, the
\* dispatcher emits exactly one trade-detected event, exactly one notification
\* per subscription of S, and one batch copy-trade RPC call whose elements are
\* exactly the eligible trade-type subscriptions of S.
C4_OneEventOneBatch ==
    OneClassifiedTrade =>
        /\ Len(EmissionsOf("kol_trade_detected")) = 1
        /\ Len(EmissionsOf("client_notification")) = Cardinality(DeliveredSubscriptions)
        /\ \A sub \in DeliveredSubscriptions : NotifiedTimes(sub.userId) = 1
        /\ Len(EmissionsOf("performBatchTrades")) <= 1
        /\ EligibleSubscriptions # {} => Len(EmissionsOf("performBatchTrades")) = 1
        /\ CopyTradeUsers = {sub.userId : sub \in EligibleSubscriptions}

\* C5: a gated subscription (trade type, tokenBuyCount > 0, watchConfig) has an
\* element in the copy-trade batch only if the count for (userId, tokenMint)
\* was below tokenBuyCount and has been incremented for this trade; once the
\* count has reached tokenBuyCount a further trade on the token yields no
\* element for the user, no RPC call when no other subscription is eligible,
\* and still the user's notification.
C5_QuotaGatesBatch ==
    OneClassifiedTrade =>
        \A sub \in {gated \in DeliveredSubscriptions : Gated(gated)} :
            /\ sub.userId \in CopyTradeUsers =>
                   /\ CountBefore(sub.userId, DeliveredMint) < sub.tokenBuyCount
                   /\ count[<<sub.userId, DeliveredMint>>] =
                          CountBefore(sub.userId, DeliveredMint) + 1
            /\ CountBefore(sub.userId, DeliveredMint) >= sub.tokenBuyCount =>
                   /\ sub.userId \notin CopyTradeUsers
                   /\ EligibleSubscriptions = {} =>
                          Len(EmissionsOf("performBatchTrades")) = 0
                   /\ NotifiedTimes(sub.userId) = 1

\* C6: a transaction for which the classifier returns an unclassified result
\* (or a side that is neither buy nor sell) produces no persisted trade, no
\* trade-detected event, no notification and no copy-trade RPC call.
C6_UnclassifiedDropped ==
    ( /\ out # <<>>
      /\ Len(out[1].data) = 1
      /\ isSwapTransaction(out[1].data[1])
      /\ Len(out[1].data[1].tokenTransfers) > 0
      /\ parseSwap(out[1].data[1], out[1].data[1].feePayer).side \notin {"buy", "sell"} )
    => out[1].emissions = <<>>

ValidTrade(trade) ==
    /\ trade.tradeType \in {"buy", "sell"}
    /\ trade.amountIn > 0
    /\ trade.amountOut > 0
    /\ \/ trade.tokenIn = SOL_MINT /\ trade.tokenOut # SOL_MINT
       \/ trade.tokenOut = SOL_MINT /\ trade.tokenIn # SOL_MINT

\* C8: every trade the dispatcher persists to trade history or publishes in a
\* trade-detected event or a notification has side buy or sell, both amounts
\* > 0, and exactly one of its two mints is the native mint.
C8_EmittedTradesValid ==
    out # <<>> =>
        \A i \in 1 .. Len(out[1].emissions) :
            out[1].emissions[i].kind
                \in {"storeKOLTrade", "kol_trade_detected", "client_notification"}
            => ValidTrade(out[1].emissions[i].trade)

\* C16: a delivery in which no transaction has an address (accountData,
\* nativeTransfers, tokenTransfers, feePayer) in the active set produces no
\* persisted trade, no trade-detected event, no notification and no copy-trade
\* RPC call.
C16_InactiveDropped ==
    ( /\ out # <<>>
      /\ \A i \in 1 .. Len(out[1].data) :
             findWalletAddress(registry, out[1].data[i]) = Null )
    => out[1].emissions = <<>>

\* a swap transaction of an active KOL that is a buy or a sell of that KOL
ClassifiedOfActive(transaction) ==
    /\ isSwapTransaction(transaction)
    /\ findWalletAddress(registry, transaction) # Null
    /\ \/ IsBuy(transaction.accountData, findWalletAddress(registry, transaction))
       \/ IsSell(transaction.accountData, findWalletAddress(registry, transaction))

\* the signatures of the trades a sequence of emissions carries
SignaturesOf(emissions) == [i \in 1 .. Len(emissions) |-> emissions[i].trade.signature]

\* one signature per subscription of the transaction's KOL, transaction after
\* transaction
RECURSIVE SignaturePerSubscription(_, _)
SignaturePerSubscription(data, i) ==
    IF i > Len(data) THEN <<>>
    ELSE [j \in 1 .. Cardinality(getSubscriptionsForKOL(
                                     registry, findWalletAddress(registry, data[i]))) |->
             data[i].signature]
         \o SignaturePerSubscription(data, i + 1)

\* C32: for a webhook batch of n classified transactions of active KOLs, every
\* transaction of the batch, not only the first, yields its own trade-detected
\* event and its own per-subscription notifications, emitted in batch order.
C32_EveryTransactionPublished ==
    ( /\ out # <<>>
      /\ out[1].tokenInfoOk
      /\ out[1].failAt = 0
      /\ \A i \in 1 .. Len(out[1].data) : ClassifiedOfActive(out[1].data[i]) )
    => /\ SignaturesOf(EmissionsOf("kol_trade_detected")) =
              [i \in 1 .. Len(out[1].data) |-> out[1].data[i].signature]
       /\ SignaturesOf(EmissionsOf("client_notification")) =
              SignaturePerSubscription(out[1].data, 1)

\* the quote (native) amount of a trade
QuoteAmount(trade) == IF trade.tokenIn = SOL_MINT THEN trade.amountIn ELSE trade.amountOut

\* C34: the estimatedCopyAmount of each notification equals the triggering
\* trade's quote (native) amount multiplied by the subscription's
\* copyPercentage and divided by 100.
C34_EstimatedCopyAmount ==
    OneClassifiedTrade /\ out[1].failAt = 0 =>
        \A i \in 1 .. Len(EmissionsOf("client_notification")) :
            \A sub \in EmissionsOf("client_notification")[i].subscriptions :
                100 * EmissionsOf("client_notification")[i].estimatedCopyAmount =
                    QuoteAmount(EmissionsOf("client_notification")[i].trade)
                        * sub.copyPercentage

\* C35: if publishing the notification for one subscription of a trade fails,
\* the notifications for the remaining subscriptions of that trade are still
\* published.
C35_RemainingNotified ==
    OneClassifiedTrade /\ out[1].failAt > 1 =>
        Len(EmissionsOf("client_notification")) = Cardinality(DeliveredSubscriptions) - 1

\* C38: for one transaction, the trade carried by the trade-detected event and
\* the notifications is the same trade (same id, same KOL wallet) as the one
\* persisted to trade history and used to build the copy-trade RPC call, and
\* that KOL wallet is the account whose balance deltas were classified.
C38_OneTradePerTransaction ==
    OneClassifiedTrade /\ out[1].failAt = 0 =>
        \A i \in 1 .. Len(out[1].emissions) :
            /\ out[1].emissions[i].trade.id = out[1].emissions[1].trade.id
            /\ out[1].emissions[i].trade.kolWallet = out[1].emissions[1].trade.kolWallet
            /\ out[1].emissions[i].trade.kolWallet = out[1].data[1].feePayer

----------------------------------------------------------------------------
(* Claims about the provider registration *)

\* the subscriber set of the KOL of the last call, before the call
SubscribersBefore == last.before.subscribers[last.kolWallet]

RemoveRequests(kolWallet) ==
    SelectSeq(last.requests, LAMBDA request :
        request.method = "removeAddressesFromWebhook" /\ kolWallet \in request.addresses)

\* C11: when unsubscribeFromKOL takes the last user out of a KOL's subscriber
\* set, the KOL is not in the active set afterwards and the provider was sent
\* exactly one remove-address request for it; when other subscribers of the
\* KOL remain, the KOL is still in the active set if it was, and the provider
\* was sent no remove request.
C11_RemoveOnLastUnsubscribe ==
    last.op = "unsubscribeFromKOL" =>
        /\ ( /\ last.userId \in SubscribersBefore
              /\ registry.subscribers[last.kolWallet] = {} )
            => /\ last.kolWallet \notin registry.active
               /\ Len(RemoveRequests(last.kolWallet)) = 1
               /\ Len(last.requests) = 1
        /\ ( /\ last.userId \in SubscribersBefore
              /\ registry.subscribers[last.kolWallet] # {} )
            => /\ last.kolWallet \in last.before.active
                      => last.kolWallet \in registry.active
               /\ last.requests = <<>>

\* C20: after syncWallets the provider's address set equals the active set,
\* and a syncWallets that follows a syncWallets makes no provider request.
C20_SyncReconciles ==
    last.op = "syncWallets" =>
        /\ provider = registry.active
        /\ last.afterSync => last.requests = <<>>

----------------------------------------------------------------------------
(* Claims about store and provider failures *)

\* C30: if any store write performed by addSubscription or removeSubscription
\* fails, the update of the KOL's subscriber set or of the active set
\* included, the operation reports failure to its caller (it throws or
\* returns success = false) instead of returning success.
C30_WriteFailureReported ==
    (last.op \in {"addSubscription", "removeSubscription"} /\ last.failed) =>
        (last.result.threw \/ ~last.result.value.success)

\* C23: every request consumed from the RPC queue results in exactly one
\* reply sent to the request's replyTo queue carrying the request's
\* correlationId, and the request is acked exactly once, also when the method
\* handler throws, in which case the single reply is an error object.
C23_OneReplyOneAck ==
    last.op = "rpc" =>
        /\ Len(last.callback.sent) = 1
        /\ last.callback.sent[1].replyTo = last.request.replyTo
        /\ last.callback.sent[1].correlationId = last.request.correlationId
        /\ last.callback.acks = 1
        /\ last.handled.threw => last.callback.sent[1].body = ErrorObject

\* C23 witness: createUserSubscription threw (the provider call failed) and
\* the caller on q2 was sent the error object with its correlationId.
C23_Witness ==
    /\ last.op = "rpc"
    /\ last.request.method = "createUserSubscription"
    /\ last.request.replyTo = "q2"
    /\ last.fault = "none"
    /\ last.handled.threw
    /\ last.callback.sent = <<[replyTo |-> "q2", correlationId |-> "c2",
                               body |-> ErrorObject]>>
    /\ last.callback.acks = 1

\* a reply that tells its caller of a failure: an error object, or
\* success = false
IndicatesFailure(body) == body.error \/ body.success = "false"

\* C24: when removeUserSubscription or createUserSubscription fails (a store
\* write or the provider call fails), the reply delivered to the RPC caller
\* indicates the failure (success = false or an error), never a reply
\* indistinguishable from a successful one.
C24_FailureReplied ==
    ( /\ last.op = "rpc"
      /\ last.request.method \in {"createUserSubscription", "removeUserSubscription"}
      /\ last.failed )
    => \A i \in 1 .. Len(last.callback.sent) :
           IndicatesFailure(last.callback.sent[i].body)

----------------------------------------------------------------------------
(* Claims about the registry under concurrent calls *)

BothDone == \A r \in Racers : race.of[r].pc = "done"

\* the user's list after the two calls, one after the other, in either order
SerialLists ==
    LET c1 == race.of["first"].call
        c2 == race.of["second"].call
    IN  {applyCall(applyCall(race.start, c1, RaceId("first")), c2,
                   RaceId("second")).subs[RaceUser],
         applyCall(applyCall(race.start, c2, RaceId("second")), c1,
                   RaceId("first")).subs[RaceUser]}

\* C27: when two addSubscription / removeSubscription calls for the same user
\* run concurrently, for the same or for different KOL wallets, the stored
\* subscription list after both equals the result of the two calls in some
\* serial order: no call's update is lost.
C27_SerialOutcome ==
    BothDone => registry.subs[RaceUser] \in SerialLists

----------------------------------------------------------------------------
(* Claims about the trade history *)

\* the keys the last storeKOLTrade call has written
KeysOfLastStore == {recent.last.trade.kolWallet, GlobalKey}

\* every entry a key has lost has an event time no higher than those it keeps,
\* and a key below its cap has lost nothing
KeepsHighest(key, cap) ==
    /\ \A d \in recent.dropped[key] :
           \A i \in 1 .. Len(recent.sets[key]) : d.score <= recent.sets[key][i].score
    /\ recent.dropped[key] # {} => Len(recent.sets[key]) = cap

----------------------------------------------------------------------------
(* Claims about the message processor *)

\* the handler has been invoked for the message and has failed every time
AllFailed(id) ==
    /\ tally[id].invoked > 0
    /\ tally[id].invoked = Cardinality(tally[id].failures)

DeadLettered(id) == tally[id].nacks > 0

\* the deliveries and the timers of a message that are still pending
PendingDeliveries(id) == {d \in inbox : d.message.id = id}
PendingTimers(id) == {t \in timers : t.message.id = id}

\* C12 as stated: a message whose handler fails on every delivery is
\* dead-lettered after retryAttempts failures, the handler having been invoked
\* retryAttempts times in total, and is not re-published afterwards.
C12_DeadAfterRetryAttempts ==
    \A id \in MsgIds :
        AllFailed(id) =>
            /\ tally[id].invoked = retryAttempts => DeadLettered(id)
            /\ DeadLettered(id) =>
                   /\ tally[id].invoked = retryAttempts
                   /\ PendingDeliveries(id) = {}
                   /\ PendingTimers(id) = {}

\* C12 amended: a message (published with retryCount 0) whose handler fails on
\* every delivery is dead-lettered at its (retryAttempts + 1)-th failure, the
\* first delivery and retryAttempts retries: it is nacked without requeue
\* exactly when the handler has been invoked retryAttempts + 1 times, never
\* earlier; until then exactly one delivery or one retry timer of it is
\* pending; once it is dead-lettered no delivery and no timer of it is left,
\* so it is not published again.
C12_DeadAfterAllRetries ==
    \A id \in MsgIds :
        AllFailed(id) =>
            /\ tally[id].invoked <= retryAttempts + 1
            /\ DeadLettered(id) <=> tally[id].invoked = retryAttempts + 1
            /\ tally[id].nacks <= 1
            /\ ~DeadLettered(id) =>
                   Cardinality(PendingDeliveries(id)) + Cardinality(PendingTimers(id)) = 1
            /\ DeadLettered(id) =>
                   /\ PendingDeliveries(id) = {}
                   /\ PendingTimers(id) = {}
                   /\ Len(tally[id].publishes) = retryAttempts

\* C12 witness: a message has been dead-lettered after retryAttempts + 1
\* failed invocations while the other message is still being retried.
C12_Witness ==
    \E id \in MsgIds, other \in MsgIds :
        /\ DeadLettered(id)
        /\ tally[id].invoked = retryAttempts + 1
        /\ tally[id].failures = 0 .. retryAttempts
        /\ other # id
        /\ PendingTimers(other) # {}

\* the retry copies of a message with a given retryCount: published, pending
PublishedCopies(id, retryCount) ==
    {i \in 1 .. Len(tally[id].publishes) :
        tally[id].publishes[i].message.retryCount = retryCount}
TimersOfCopy(id, retryCount) ==
    {t \in PendingTimers(id) : t.message.retryCount = retryCount}

Settled(id) == tally[id].settled
SettledEntries(id) == {Settled(id)[i] : i \in 1 .. Len(Settled(id))}

\* the first handler in registration order whose canHandle returns true
IsFirstMatch(k, message) ==
    /\ canHandle(Handlers[k], message)
    /\ \A j \in 1 .. k - 1 : ~canHandle(Handlers[j], message)

\* C21: a consumed message for which no registered handler's canHandle
\* returns true is acked and neither retried nor dead-lettered; when several
\* handlers match, only the first matching handler is invoked.
C21_UnhandledAckedFirstMatchOnly ==
    \A id \in MsgIds : \A e \in SettledEntries(id) :
        e.type \in MessageTypes =>
            IF \A k \in 1 .. Len(Handlers) :
                   ~canHandle(Handlers[k], Message(id, e.type, e.retryCount))
            THEN /\ e.acks = 1
                 /\ e.nacks = 0
                 /\ e.invoked = <<>>
                 /\ ~e.retried
                 /\ tally[id].nacks = 0
                 /\ tally[id].publishes = <<>>
                 /\ \A t \in timers : t.message.id # id
            ELSE \E k \in 1 .. Len(Handlers) :
                     /\ IsFirstMatch(k, Message(id, e.type, e.retryCount))
                     /\ e.invoked = <<Handlers[k]>>

\* C21 witness: one message that no handler takes was consumed and acked,
\* and one that both handlers take was handled by the first.
C21_Witness ==
    \E id1, id2 \in MsgIds :
        /\ Len(Settled(id1)) = 1
        /\ Settled(id1)[1].type = "service_ping"
        /\ Settled(id1)[1].acks = 1
        /\ inbox = {}
        /\ Len(Settled(id2)) = 1
        /\ Len(Matching(Message(id2, Settled(id2)[1].type, 0))) = 2
        /\ Settled(id2)[1].invoked = <<Handlers[1]>>

\* C26: every delivery consumed from an inbound command queue receives
\* exactly one ack or exactly one nack without requeue, never both, never
\* two, never none: on handler success, handler failure with a retry
\* scheduled, retries exhausted, no matching handler and unparseable body.
C26_OneAckOrNack ==
    \A id \in MsgIds :
        /\ \A e \in SettledEntries(id) : e.acks + e.nacks = 1
        /\ tally[id].acks + tally[id].nacks = Len(Settled(id))

\* C26 witness: one message went through retries to exhaustion (acked at
\* each retry, nacked at the last failure) and one with an unparseable body
\* was nacked.
C26_Witness ==
    \E id1, id2 \in MsgIds :
        /\ Len(Settled(id1)) = retryAttempts + 1
        /\ \A i \in 1 .. retryAttempts :
               Settled(id1)[i].retried /\ Settled(id1)[i].acks = 1
        /\ Settled(id1)[retryAttempts + 1].nacks = 1
        /\ Len(Settled(id2)) = 1
        /\ Settled(id2)[1].type = Unparseable
        /\ Settled(id2)[1].nacks = 1

\* the handler failed for the delivery of id with retry count r
FailedAt(id, r) == r \in tally[id].failures

\* the message was delivered again with retry count r: the copy is with the
\* consumer or has been handled
DeliveredWith(id, r) ==
    \/ \E d \in inbox : d.message.id = id /\ d.message.retryCount = r
    \/ \E e \in SettledEntries(id) : e.retryCount = r

\* C29: a message whose handler failed with retries remaining is never lost:
\* in every execution it is eventually delivered again with retryCount + 1 or
\* dead-lettered, also when the channel closes or the re-publish fails during
\* the backoff delay that follows the ack of the original delivery.
C29_RetryNeverLost ==
    \A id \in MsgIds : \A r \in 0 .. retryAttempts - 1 :
        FailedAt(id, r) ~> (DeliveredWith(id, r + 1) \/ DeadLettered(id))

\* C22: after a bus disconnect, the k-th consecutive reconnect attempt
\* (k = 0, 1, ...) is scheduled after min(1000 * 2^k, 30000) ms; a successful
\* reconnect resets the attempt count to 0; and if every attempt fails, the
\* process terminates after exactly 10 attempts and no further attempt is
\* made.
C22_ReconnectBackoff ==
    /\ \A i \in 1 .. Len(conn.pending) :
           conn.pending[i].delay = Min(1000 * (2 ^ conn.pending[i].streak), 30000)
    /\ conn.lastEvent = "reconnected" => conn.reconnectAttempts = 0
    /\ conn.failedRun <= 10
    /\ conn.failedRun = 10 => conn.exited
    /\ conn.exited => (conn.failedRun = 10 /\ conn.pending = <<>>)

\* C40: at most one reconnection sequence is in progress at any time: an
\* 'error' event followed by 'close', or a timer pending at stop(), never
\* leads to two pending reconnect timers, to a reconnect after stop(), or to
\* more than one live connection (and with it more than one consumer per
\* inbound queue).
C40_OneReconnectSequence ==
    /\ Len(conn.pending) <= 1
    /\ ~conn.afterStop
    /\ conn.connections <= 1

----------------------------------------------------------------------------
(* Claims about the webhook endpoint *)

IsEffect(step) == step.kind # "response"

\* the transaction (request, position in the payload) a comes before b in the
\* order the transactions were received
ReceivedBefore(a, b) == a[1] < b[1] \/ (a[1] = b[1] /\ a[2] < b[2])

\* C14: for two transactions of the same KOL wallet, in one batch or in two
\* requests whose processing overlaps, every pipeline effect of the one
\* received first happens before any effect of the other: whenever an effect
\* of a transaction has been made, every effect of each transaction of the
\* same KOL received before it has been made already.
C14_PerKolOrder ==
    \A r \in Requests, q \in Requests :
        \A i \in 1 .. Len(http[r].steps), j \in 1 .. http[q].done :
            ( /\ IsEffect(http[r].steps[i])
              /\ IsEffect(http[q].steps[j])
              /\ http[r].steps[i].kol = http[q].steps[j].kol
              /\ ReceivedBefore(<<r, http[r].steps[i].tx>>, <<q, http[q].steps[j].tx>>) )
            => i <= http[r].done

\* C15: the handler of POST /helius-webhook sends the 200 response before any
\* store write, RPC call or publish for the payload is made, it sends it
\* once, and it sends 200 also when the processing fails afterwards.
C15_RespondsFirst ==
    \A r \in Requests :
        http[r] # NoRequest =>
            /\ http[r].done >= 1
            /\ http[r].steps[1] = Response(200)
            /\ \A i \in 2 .. Len(http[r].steps) : IsEffect(http[r].steps[i])

\* C15 witness: a request whose processing failed at the token metadata lookup
\* after it had written the trade and called the copy-trade RPC; its response
\* was 200 and came first, while another request was still being processed.
C15_Witness ==
    \E r \in Requests, q \in Requests :
        /\ ~http[r].tokenInfoOk
        /\ http[r].done = Len(http[r].steps)
        /\ http[r].done = 3
        /\ http[r].steps[1] = Response(200)
        /\ q # r
        /\ http[q].done \in 2 .. Len(http[q].steps) - 1

----------------------------------------------------------------------------
(* Claims about the tracker called by one caller at a time *)

\* C17: when the counter for (userId, tokenMint) equals maxCount and the store
\* commands of the call succeed, incrementAndValidatePurchase returns
\* success = false, wasAtLimit = true and newCount = maxCount, and after it
\* the counter and the purchase record are what they were before the call.
C17_RejectedAtLimitRestores ==
    ( /\ last.op = "incrementAndValidatePurchase"
      /\ last.fault = "none"
      /\ last.countBefore = limit )
    => /\ last.result = IavpReturn(FALSE, limit, TRUE)
       /\ count[last.key] = last.countBefore
       /\ record[last.key] = last.recordBefore

\* C17 witness: a call was rejected at the limit after maxCount calls had
\* succeeded and written the record.
C17_Witness ==
    /\ last.op = "incrementAndValidatePurchase"
    /\ last.fault = "none"
    /\ last.countBefore = limit
    /\ last.recordBefore = PurchaseRecord(limit, limit)
    /\ last.result.value.wasAtLimit
    /\ Len(trail) = limit + 1

\* C18: when the store is unavailable or a store command of the call fails,
\* canUserPurchaseToken returns canPurchase = true with currentCount = 0 and
\* incrementAndValidatePurchase returns success = false; neither raises an
\* error to its caller.
C18_FailOpenFailClosed ==
    /\ (last.op = "canUserPurchaseToken" /\ last.fault # "none") =>
           /\ ~last.result.threw
           /\ last.result.value.canPurchase
           /\ last.result.value.currentCount = 0
    /\ (last.op = "incrementAndValidatePurchase" /\ last.fault # "none") =>
           /\ ~last.result.threw
           /\ ~last.result.value.success
    /\ \A i \in 1 .. Len(trail) :
           trail[i].fault # "none" =>
               ~trail[i].result.threw /\ ~trail[i].result.value.success

\* C18 witness: the GET of canUserPurchaseToken failed while the counter was
\* at the limit, after an incrementAndValidatePurchase whose SET had failed.
C18_Witness ==
    /\ last.op = "canUserPurchaseToken"
    /\ last.fault = "get"
    /\ last.countBefore = limit
    /\ last.result.value.canPurchase
    /\ \E i \in 1 .. Len(trail) : trail[i].fault = "set"

\* every call since the reset ran without a fault
CleanTrail == \A i \in 1 .. Len(trail) : trail[i].fault = "none"

\* C19: from a reset (absent) counter, the first N of the sequential
\* incrementAndValidatePurchase calls with maxCount N return success = true
\* with newCount = 1, 2, ..., N in that order; canUserPurchaseToken returns
\* canPurchase = true with currentCount = 0 before the first call and
\* canPurchase = false with remainingPurchases = 0 after the N-th.
C19_SequentialPurchases ==
    CleanTrail =>
        /\ \A i \in 1 .. Len(trail) :
               i <= limit => trail[i].result = IavpReturn(TRUE, i, FALSE)
        /\ (last.op = "canUserPurchaseToken" /\ last.fault = "none") =>
               /\ ~last.result.threw
               /\ Len(trail) = 0 =>
                      /\ last.result.value.canPurchase
                      /\ last.result.value.currentCount = 0
               /\ Len(trail) = limit =>
                      /\ ~last.result.value.canPurchase
                      /\ last.result.value.remainingPurchases = 0

\* C19 witness: after a reset, maxCount calls (more than one) have succeeded
\* and canUserPurchaseToken, called after the last, refuses.
C19_Witness ==
    /\ CleanTrail
    /\ limit > 1
    /\ Len(trail) = limit
    /\ trail[limit].result = IavpReturn(TRUE, limit, FALSE)
    /\ last.op = "canUserPurchaseToken"
    /\ last.fault = "none"
    /\ ~last.result.value.canPurchase

\* C36: an incrementAndValidatePurchase call that returns success = false
\* leaves the stored counter at the value it had before the call, also when
\* the failure is a store error after the increment step (the purchase-record
\* write or the rollback decrement failing).
C36_FailedCallRestoresCounter ==
    ( /\ last.op = "incrementAndValidatePurchase"
      /\ ~last.result.value.success )
    => count[last.key] = last.countBefore

=============================================================================
